---- MODULE Spec2Model ----
(***************************************************************************)
(* Frame orchestration of the vrs renderer.                                *)
(*                                                                         *)
(* Two snapshots of the renderer live in the repository and both are       *)
(* modelled here, each under its own specification:                        *)
(*   Spec    the ash based Frame (rendering/frame/mod.rs): per-slot        *)
(*           semaphores and fences, Frame::draw, Swapchain::present_image, *)
(*           the uniform buffers, interleaved with the GPU finishing the   *)
(*           submissions it accepted;                                      *)
(*   SpecFS  the vulkano based FrameSystem (rendering/frame_system.rs):    *)
(*           FrameSystem::frame and Frame::next_pass.                      *)
(***************************************************************************)
EXTENDS Integers, Sequences, FiniteSets, TLC

(* ---------------------------------------------------------------------- *)
(* Bounds                                                                  *)
(* ---------------------------------------------------------------------- *)

\* largest number of frames in flight (= swapchain image count) explored
MaxFrames == 2

\* length of the GPU queue the model explores (never reached by the code)
MaxPending == 3

\* the per-slot history counters saturate at this value
CountCap == 2

(* ---------------------------------------------------------------------- *)
(* State of the ash based Frame                                            *)
(* ---------------------------------------------------------------------- *)

VARIABLES
    max_frames_in_flight,   \* FrameSyncObjects.max_frames_in_flight
    current_frame,          \* Frame.current_frame
    inflight_fences,        \* slot -> TRUE when the fence is signalled
    command_buffers,        \* image index -> uniform buffer its descriptor set binds
    pc,                     \* position of the render loop
    step,                   \* index in DrawOrder of the statement Frame::draw is at
    image_index,            \* image index returned by acquire in this call
    was_resized,            \* value present_image returned in this call
    present_vk,             \* vk result of the last queue_present
    acquire_suboptimal,     \* the suboptimal flag acquire returned in this call
    gpu_queue,              \* submissions accepted by the queue and unfinished
    acquired,               \* images acquired and not handed back by present
    swapchain_stale,        \* the surface changed since the swapchain was made
    ops,                    \* Vulkan calls completed in the current draw call
    call_frame,             \* current_frame at entry of the current draw call
    result,                 \* what the last draw call returned
    exit_at,                \* the statement at which the last draw call returned
    waits,                  \* slot -> fence waits since the last submission
    resets,                 \* slot -> fence resets since the last submission
    early,                  \* slot -> early returns after a wait since then
    last_submit,            \* the counters as they were at the last submission
    sync                    \* handles given to acquire, submit and present in this call

ashVars == <<max_frames_in_flight, current_frame, inflight_fences,
             command_buffers, pc, step, image_index, was_resized,
             present_vk, acquire_suboptimal, gpu_queue, acquired, swapchain_stale, ops,
             call_frame, result, exit_at, waits, resets, early, last_submit,
             sync>>

(* ---------------------------------------------------------------------- *)
(* State of the vulkano based FrameSystem and of the Frame it hands out    *)
(* ---------------------------------------------------------------------- *)

\* largest window width and height explored
MaxDim == 2

\* number of swapchain recreations explored
MaxRecreations == 2

VARIABLES
    window_size,                \* surface.window().inner_size()
    swapchain_dimensions,       \* dimensions the swapchain was created with
    should_recreate_swapchain,  \* FrameSystem.should_recreate_swapchain
    frame_future,               \* FrameSystem.frame_future: "some" or "none"
    attachments,                \* self.attachments: how often they were replaced
    framebuffers,               \* the attachments the framebuffers were built on
    directional_input,          \* the attachments the directional set reads
    composing_input,            \* the attachments the composing set reads
    frame_alive,                \* a Frame borrowed from the system exists
    pass_index,                 \* Frame.pass_index (u8)
    taken_future,               \* Frame.frame_future: "some" or "none"
    primary_buffer,             \* Frame.command_buffer: "none" or the subpass
    last_pass,                  \* what the last next_pass call returned
    begins,                     \* render pass begins of the current Frame
    submits,                    \* submissions of the current Frame
    frame_ops,                  \* swapchain calls made by the last frame call
    frame_ret,                  \* what the last frame call returned
    frame_call_window,          \* window size when the last frame call began
    frame_call_flag,            \* should_recreate_swapchain at that moment
    flush_result,               \* what the flush of the last step returned
    panicked                    \* "no", or the unwrap or panic! that aborted

fsVars == <<window_size, swapchain_dimensions, should_recreate_swapchain,
            frame_future, attachments, framebuffers, directional_input,
            composing_input, frame_alive, pass_index, taken_future,
            primary_buffer, last_pass, begins, submits, frame_ops, frame_ret,
            frame_call_window, frame_call_flag, flush_result, panicked>>

(* ---------------------------------------------------------------------- *)
(* State of FrameLogic, of the Swapchain it renders to, and of the        *)
(* Vulkan handles both have created                                        *)
(* ---------------------------------------------------------------------- *)

VARIABLES
    handles,                \* every handle created: kind, destroy calls, referenced handles
    logic_framebuffers,     \* FrameLogic.framebuffers: (framebuffer, depth image, view)
    logic_command_buffers,  \* FrameLogic.command_buffers
    logic,                  \* "alive", or "destroyed" after FrameLogic::destroy
    swapchain,              \* "alive", or "destroyed" after Swapchain::destroy
    destroyed_log,          \* the handles destroyed or freed, in the order of the calls
    logic_recreations,      \* recreate_* calls made
    logic_result            \* what the last recreate_* call returned

flVars == <<handles, logic_framebuffers, logic_command_buffers, logic,
            swapchain, destroyed_log, logic_recreations, logic_result>>

(* ---------------------------------------------------------------------- *)
(* A call of one of the selection functions                                *)
(* ---------------------------------------------------------------------- *)

VARIABLES
    call,                   \* the function called, "none" when none is
    args,                   \* its arguments
    returned,               \* TRUE once it returned
    ret                     \* the value it returned

selVars == <<call, args, returned, ret>>

(* ---------------------------------------------------------------------- *)
(* A call of pick_physical_device (rendering/device.rs)                    *)
(* ---------------------------------------------------------------------- *)

VARIABLES
    pick_pc,                \* "enumerate", "loop" or "returned"
    physical_devices,       \* number of devices enumerate_physical_devices gave
    checked,                \* per device examined: is it suitable, and what
                            \* check_physical_device returned for it
    picked,                 \* the local `result`: None or (device, indices)
    pick_ret                \* what pick_physical_device returned

devVars == <<pick_pc, physical_devices, checked, picked, pick_ret>>

(* ---------------------------------------------------------------------- *)
(* What FrameLogic has built and recorded for the swapchain it was given   *)
(* (rendering/frame/frame_logic.rs, graphics_pipeline_layout.rs)           *)
(* ---------------------------------------------------------------------- *)

VARIABLES
    rec_swapchain,          \* the Swapchain passed to the calls: image count, extent
    descriptor_sets,        \* length of UniformBuffers.descriptor_sets
    meshes,                 \* FrameLogic.meshes
    rec_framebuffers,       \* FrameLogic.framebuffers: the extent each was built for
    rec_command_buffers,    \* FrameLogic.command_buffers: what each has recorded
    rec_panicked,           \* an index was out of bounds
    rec_last,               \* the last call: its name, result and image index
    rec_before              \* what the recreate_logic call before the last call
                            \* left, when both succeeded one after the other

recVars == <<rec_swapchain, descriptor_sets, meshes, rec_framebuffers,
             rec_command_buffers, rec_panicked, rec_last, rec_before>>

(* ---------------------------------------------------------------------- *)
(* The light-accumulation attachment during the lighting subpass           *)
(* (rendering/frame_system.rs, rendering/lighting_systems/mod.rs)          *)
(* ---------------------------------------------------------------------- *)

VARIABLES
    light,                  \* the texel of attachments.light: R, G, B, A
    light_sum,              \* per channel, the sum of what the light draws put out
    light_draws,            \* light draws made in the subpass
    full_directional        \* how many of them were directional at full intensity

blendVars == <<light, light_sum, light_draws, full_directional>>

(* ---------------------------------------------------------------------- *)
(* The pipeline of SimpleFrameLogic (rendering/frame.rs)                   *)
(* ---------------------------------------------------------------------- *)

VARIABLES
    graphics_pipeline,      \* SimpleFrameLogic.graphics_pipeline, 0 is vk::Pipeline::null()
    pipelines_alive,        \* the pipelines created and not destroyed
    pipeline_log,           \* create, failed create and destroy calls, in order
    pipeline_ret,           \* what the last recreate_pipeline call returned
    pipeline_before         \* graphics_pipeline when that call was entered

pipeVars == <<graphics_pipeline, pipelines_alive, pipeline_log, pipeline_ret,
              pipeline_before>>

(* ---------------------------------------------------------------------- *)
(* Buffer::new and Mesh::new (rendering/buffer.rs, rendering/mesh.rs)      *)
(* ---------------------------------------------------------------------- *)

VARIABLES
    mesh_pc,                \* the statement of Mesh::new to run next, 0: no call
    mesh_call,              \* the number of Buffer::new and Mesh::new calls made
    vk_alive,               \* the Vulkan handles created and not destroyed
    mesh_ret,               \* what the last call returned
    mesh_owned              \* the handles the returned Buffer or Mesh holds

bufVars == <<mesh_pc, mesh_call, vk_alive, mesh_ret, mesh_owned>>

\* the variables of the other parts of the renderer
restVars == <<devVars, recVars, blendVars, pipeVars, bufVars>>

vars == <<ashVars, fsVars, flVars, selVars, restVars>>

\* Option::None of a queue family index
None == -1

\* QueueFamilyIndices::default()
DefaultIndices == [graphics_family |-> None, present_family |-> None]

\* `result = None` in pick_physical_device
NothingPicked == [device |-> 0, indices |-> DefaultIndices]

\* pick_physical_device has not returned
NoPickReturn == [ok |-> FALSE, error |-> "pending", device |-> 0,
                 indices |-> DefaultIndices]

\* pick_physical_device at position `at`, before enumerate_physical_devices
PickAt(at) ==
    /\ pick_pc = at
    /\ physical_devices = 0
    /\ checked = <<>>
    /\ picked = NothingPicked
    /\ pick_ret = NoPickReturn

\* swapchain images a surface may give
MaxImages == 2

\* the extents the swapchain is created with
SwapchainExtents == {<<1, 1>>, <<2, 1>>}

\* the mesh lists the scene passes to update_meshes
MeshLists == {<<>>, <<"cube">>, <<"plane">>, <<"cube", "plane">>}

\* a command buffer that was allocated and not recorded
Unrecorded == [framebuffer |-> None, extent |-> <<0, 0>>, draws |-> <<>>,
               recorded |-> FALSE]

\* lines 290-343 of recreate_command_buffers for command buffer i: the
\* render pass on framebuffers[i] over the swapchain extent, and per mesh
\* the descriptor set i and an indexed draw
RecordCommandBuffer(i) ==
    [framebuffer |-> i, extent |-> rec_swapchain.extent,
     draws |-> [m \in 1 .. Len(meshes) |->
                   [mesh |-> meshes[m], descriptor_set |-> i]],
     recorded |-> TRUE]

\* recording command buffer i indexes self.framebuffers[i] and, per mesh,
\* descriptor_sets[i]
IndexOutOfBounds(built, i) ==
    \/ i >= Len(built)
    \/ meshes # <<>> /\ i >= descriptor_sets

\* the first command buffer whose recording panics, n when none does
RECURSIVE FirstPanic(_, _, _)
FirstPanic(built, i, n) ==
    IF i >= n \/ IndexOutOfBounds(built, i)
    THEN i
    ELSE FirstPanic(built, i + 1, n)

\* self.command_buffers when the loop stopped before command buffer `stop`
RecordedUntil(n, stop) ==
    [j \in 1 .. n |-> IF j - 1 < stop THEN RecordCommandBuffer(j - 1)
                      ELSE Unrecorded]

\* lines 231-265 of recreate_frame_buffers, every create call succeeding
CreatedFramebuffers ==
    [i \in 1 .. rec_swapchain.image_count |-> [extent |-> rec_swapchain.extent]]

NoRecCall == [call |-> "new", ok |-> TRUE, image_index |-> 0]

NoSnapshot == [framebuffers |-> <<>>, command_buffers |-> <<>>, taken |-> FALSE]

\* FrameLogic::new for a swapchain of n images: no meshes, then
\* recreate_frame_buffers and recreate_command_buffers
FrameLogicRecorded(n, extent) ==
    /\ rec_swapchain = [image_count |-> n, extent |-> extent]
    /\ descriptor_sets = n
    /\ meshes = <<>>
    /\ rec_framebuffers = [i \in 1 .. n |-> [extent |-> extent]]
    /\ rec_command_buffers =
          [j \in 1 .. n |-> [framebuffer |-> j - 1, extent |-> extent,
                             draws |-> <<>>, recorded |-> TRUE]]
    /\ rec_panicked = FALSE
    /\ rec_last = NoRecCall
    /\ rec_before = NoSnapshot

\* the clear value of the light attachment passed to begin_render_pass
ClearValue == <<0, 0, 0, 0>>

\* the lighting subpass has begun on a cleared attachment
LightCleared ==
    /\ light = ClearValue
    /\ light_sum = <<0, 0, 0>>
    /\ light_draws = 0
    /\ full_directional = 0

\* vk::Pipeline::null()
NullPipeline == 0

\* SimpleFrameLogic::new before its recreate_pipeline call (lines 210-219)
SimpleFrameLogicNew ==
    /\ graphics_pipeline = NullPipeline
    /\ pipelines_alive = {}
    /\ pipeline_log = <<>>
    /\ pipeline_ret = "none"
    /\ pipeline_before = NullPipeline

\* no buffer or mesh has been created
NoBuffers ==
    /\ mesh_pc = 0
    /\ mesh_call = 0
    /\ vk_alive = {}
    /\ mesh_ret = "none"
    /\ mesh_owned = {}

\* the other parts of the renderer are not in use
RestIdle ==
    /\ PickAt("idle")
    /\ FrameLogicRecorded(1, <<1, 1>>)
    /\ LightCleared
    /\ SimpleFrameLogicNew
    /\ NoBuffers

\* no selection function is being called
NoCall ==
    /\ call = "none"
    /\ args = <<>>
    /\ returned = FALSE
    /\ ret = <<>>

Dims == (0 .. MaxDim) \X (0 .. MaxDim)

IsZeroSize(size) == size[1] = 0 \/ size[2] = 0

\* FrameSystem::create_attachments: four new images replace self.attachments
create_attachments(replaced) == replaced + 1

\* FrameSystem::create_framebuffers: one framebuffer per swapchain image, each
\* built on the attachments handed in
create_framebuffers(built_on) == built_on

update_input_forgotten(bound, input) == bound

\* LightingSystem::update_input / ComposingSystem::update_input: the
\* descriptor set is rebuilt from the input
update_input(bound, input) == input

\* FrameSystem::new: the state after construction for a window of that size
FrameSystemNew(size) ==
    /\ window_size = size
    /\ swapchain_dimensions = size
    /\ should_recreate_swapchain = FALSE
    /\ frame_future = "some"
    /\ attachments = 0
    /\ framebuffers = create_framebuffers(attachments)
    /\ directional_input = attachments
    /\ composing_input = attachments
    /\ frame_alive = FALSE
    /\ pass_index = 0
    /\ taken_future = "none"
    /\ primary_buffer = "none"
    /\ last_pass = "none"
    /\ begins = 0
    /\ submits = 0
    /\ frame_ops = <<>>
    /\ frame_ret = "none"
    /\ frame_call_window = size
    /\ frame_call_flag = FALSE
    /\ flush_result = "none"
    /\ panicked = "no"

Slots == 0 .. (max_frames_in_flight - 1)

NoImage == 0 - 1

NoSubmit == [slot |-> 0 - 1, waits |-> 0, resets |-> 0, early |-> 0]

Inc(c) == IF c < CountCap THEN c + 1 ELSE c

Min(a, b) == IF a < b THEN a ELSE b

Range(s) == {s[i] : i \in 1 .. Len(s)}

RemoveAt(s, k) == [i \in 1 .. (Len(s) - 1) |-> IF i < k THEN s[i] ELSE s[i + 1]]

(* ---------------------------------------------------------------------- *)
(* FrameSyncObjects                                                        *)
(* ---------------------------------------------------------------------- *)

\* FrameSyncObjects::new: every fence is created SIGNALED
NewFences(n) == [s \in 0 .. (n - 1) |-> TRUE]

next_frame_stuck(frame) == frame

\* FrameSyncObjects::next_frame
next_frame(frame) == (frame + 1) % max_frames_in_flight

fence_signaled_nowait(frame) == TRUE

\* wait_for_fences returns once the fence of the slot is signalled
fence_signaled(frame) == inflight_fences[frame]

(* ---------------------------------------------------------------------- *)
(* UniformBuffers and FrameLogic                                           *)
(* ---------------------------------------------------------------------- *)

\* UniformBuffers::new binds descriptor set i to world_data_buffers[i];
\* the result is the buffer a descriptor set reads
descriptor_set(i) == i

\* recreate_command_buffers records one command buffer per swapchain image;
\* command buffer i binds descriptor_set(i)
recreate_command_buffers(image_count) ==
    [i \in 0 .. (image_count - 1) |-> descriptor_set(i)]

\* FrameLogic::command_buffer
command_buffer(i) == command_buffers[i]

(* ---------------------------------------------------------------------- *)
(* Swapchain                                                               *)
(* ---------------------------------------------------------------------- *)

VkPresentResults == {"SUCCESS", "SUBOPTIMAL_KHR", "ERROR_OUT_OF_DATE_KHR",
                     "ERROR_DEVICE_LOST", "ERROR_SURFACE_LOST_KHR"}

present_image_raise(vk) ==
    IF vk = "SUCCESS" THEN "ok_false"
    ELSE IF vk = "SUBOPTIMAL_KHR" THEN "ok_true"
    ELSE "err"

\* Swapchain::present_image: queue_present gives Ok(is_sub_optimal) for
\* SUCCESS and SUBOPTIMAL_KHR and Err for every other result
present_image(vk) ==
    IF vk = "SUCCESS" THEN "ok_false"
    ELSE IF vk = "SUBOPTIMAL_KHR" THEN "ok_true"
    ELSE IF vk = "ERROR_OUT_OF_DATE_KHR" THEN "ok_true"
    ELSE "err"

(* ---------------------------------------------------------------------- *)
(* Frame::draw, one action per Vulkan call                                 *)
(* ---------------------------------------------------------------------- *)

DrawOrderResetBeforeAcquire ==
    <<"wait", "reset", "acquire", "submit", "present", "advance">>

DrawOrderWaitAfterSubmit ==
    <<"acquire", "reset", "submit", "wait", "present", "advance">>

DrawOrderDoubleReset ==
    <<"wait", "reset", "acquire", "reset", "submit", "present", "advance">>

DrawOrderPresentBeforeSubmit ==
    <<"wait", "acquire", "reset", "present", "submit", "advance">>

\* the order of the statements of Frame::draw
DrawOrder ==
    <<"wait", "acquire", "reset", "submit", "present", "advance">>

\* FrameSyncObjects::image_available_semaphore
image_available_semaphore(frame) == <<"image_available", frame>>

\* FrameSyncObjects::render_finished_semaphore
render_finished_semaphore(frame) == <<"render_finished", frame>>

\* FrameSyncObjects::inflight_fence
inflight_fence(frame) == <<"inflight_fence", frame>>

\* vk::Fence::null(), and the places of a call that take no handle
NoHandle == <<"null", 0>>

\* the locals Frame::draw takes from the slot it was entered for
wait_semaphores == image_available_semaphore(call_frame)

wait_fence == inflight_fence(call_frame)

signal_semaphores == render_finished_semaphore(call_frame)

\* Frame::draw is at the statement named
At(name) == pc = "draw" /\ DrawOrder[step] = name

Op(name) == [op |-> name, slot |-> current_frame]

OpNames == {o.op : o \in Range(ops)}

\* an early return of Frame::draw: current_frame is left as it is
Return(res, at) ==
    /\ pc' = "returned"
    /\ step' = 0
    /\ result' = res
    /\ exit_at' = at
    /\ early' = IF "wait" \in OpNames /\ "submit" \notin OpNames
                THEN [early EXCEPT ![current_frame] = Inc(@)]
                ELSE early

(* ---------------------------------------------------------------------- *)
(* The handles of Swapchain and FrameLogic                                 *)
(* ---------------------------------------------------------------------- *)

\* a handle as the create call returns it
Handle(kind, deps) == [kind |-> kind, destroyed |-> 0, deps |-> deps]

\* Swapchain::new: the swapchain is handle 1, then one image view per image
SwapchainHandles(n) ==
    <<Handle("swapchain", {})>> \o
    [i \in 1 .. n |-> Handle("swapchain_image_view", {1})]

\* swapchain.image_views()[i]
image_views(i) == i + 2

\* FrameLogic::new: render pass, pipeline layout, the two shader modules
\* and the pipeline created from them
PipelineHandles(base) ==
    <<Handle("deferred_render_pass", {}),
      Handle("pipeline_layout", {}),
      Handle("vertex_shader_module", {}),
      Handle("fragment_shader_module", {}),
      Handle("graphics_pipeline", {base + 1, base + 2, base + 3, base + 4})>>

\* the closure of recreate_frame_buffers, stopped after `created` create
\* calls succeeded: per swapchain image a depth image, its view, and the
\* framebuffer on the swapchain image view and the depth image view
CreateFramebuffers(base, created) ==
    [j \in 1 .. created |->
        IF (j - 1) % 3 = 0 THEN Handle("depth_image", {})
        ELSE IF (j - 1) % 3 = 1 THEN Handle("depth_image_view", {base + j - 1})
        ELSE Handle("framebuffer",
                    {image_views((j - 1) \div 3), base + j - 1})]

\* the vector collected when every create call succeeded
CollectedFramebuffers(base, n) ==
    [i \in 1 .. n |-> [depth_image |-> base + 3 * (i - 1) + 1,
                       depth_image_view |-> base + 3 * (i - 1) + 2,
                       framebuffer |-> base + 3 * (i - 1) + 3]]

\* device.allocate_command_buffers
AllocateCommandBuffers(n) == [i \in 1 .. n |-> Handle("command_buffer", {})]

\* vkDestroy.. / vkFree.. called once on each of the handles listed
DestroyAll(table, ids) ==
    [id \in DOMAIN table |->
        IF id \in Range(ids)
        THEN [table[id] EXCEPT !.destroyed = Inc(@)]
        ELSE table[id]]

\* FrameLogic::destroy_framebuffers: the handles in the order destroyed
destroy_framebuffers ==
    [j \in 1 .. (3 * Len(logic_framebuffers)) |->
        IF (j - 1) % 3 = 0
        THEN logic_framebuffers[((j - 1) \div 3) + 1].depth_image_view
        ELSE IF (j - 1) % 3 = 1
        THEN logic_framebuffers[((j - 1) \div 3) + 1].depth_image
        ELSE logic_framebuffers[((j - 1) \div 3) + 1].framebuffer]

\* FrameLogic::free_command_buffers: the handles freed
free_command_buffers == logic_command_buffers

HandleOf(kind) == CHOOSE id \in DOMAIN handles : handles[id].kind = kind

\* Swapchain::new followed by FrameLogic::new, both succeeding
FrameLogicNew(n) ==
    /\ handles = SwapchainHandles(n) \o PipelineHandles(n + 1) \o
                 CreateFramebuffers(n + 6, 3 * n) \o AllocateCommandBuffers(n)
    /\ logic_framebuffers = CollectedFramebuffers(n + 6, n)
    /\ logic_command_buffers = [i \in 1 .. n |-> 4 * n + 6 + i]
    /\ logic = "alive"
    /\ swapchain = "alive"
    /\ destroyed_log = <<>>
    /\ logic_recreations = 0
    /\ logic_result = "none"

\* Frame::new for a swapchain of n images
FrameNew(n) ==
    /\ FrameLogicNew(n)
    /\ max_frames_in_flight = n
    /\ current_frame = 0
    /\ inflight_fences = NewFences(max_frames_in_flight)
    /\ command_buffers = recreate_command_buffers(max_frames_in_flight)
    /\ pc = "idle"
    /\ step = 0
    /\ image_index = NoImage
    /\ was_resized = "ok_false"
    /\ present_vk = "SUCCESS"
    /\ acquire_suboptimal = FALSE
    /\ gpu_queue = <<>>
    /\ acquired = {}
    /\ swapchain_stale = FALSE
    /\ ops = <<>>
    /\ call_frame = 0
    /\ result = "none"
    /\ exit_at = "none"
    /\ waits = [s \in Slots |-> 0]
    /\ resets = [s \in Slots |-> 0]
    /\ early = [s \in Slots |-> 0]
    /\ last_submit = NoSubmit
    /\ sync = <<>>

Init ==
    /\ \E n \in 1 .. MaxFrames : FrameNew(n)
    /\ FrameSystemNew(<<1, 1>>)
    /\ NoCall
    /\ RestIdle

\* statements 41-44 of Frame::draw: the call is entered for the current slot
DrawBegin ==
    /\ pc = "update"
    /\ pc' = "draw"
    /\ step' = 1
    /\ ops' = <<>>
    /\ call_frame' = current_frame
    /\ image_index' = NoImage
    /\ acquire_suboptimal' = FALSE
    /\ UNCHANGED <<max_frames_in_flight, current_frame, inflight_fences,
                   command_buffers, was_resized, present_vk, gpu_queue,
                   acquired, swapchain_stale, result, exit_at, waits, resets,
                   early, last_submit>>
    /\ sync' = <<>>
    /\ UNCHANGED <<fsVars, flVars, selVars, restVars>>

\* self.frame_sync_objects.wait_for_fence(device, self.current_frame)?
WaitForFence ==
    /\ At("wait")
    /\ \/ /\ fence_signaled(current_frame)
          /\ step' = step + 1
          /\ ops' = Append(ops, Op("wait"))
          /\ waits' = [waits EXCEPT ![current_frame] = Inc(@)]
          /\ UNCHANGED <<pc, result, exit_at, early>>
       \/ /\ Return("err", "wait")
          /\ UNCHANGED <<ops, waits>>
    /\ UNCHANGED <<max_frames_in_flight, current_frame, inflight_fences,
                   command_buffers, image_index, was_resized, present_vk,
                   acquire_suboptimal, gpu_queue, acquired, swapchain_stale,
                   call_frame, resets, last_submit>>
    /\ UNCHANGED sync
    /\ UNCHANGED <<fsVars, flVars, selVars, restVars>>

\* swapchain.acquire_next_image(wait_semaphores[0]) and the match on it
AcquireNextImage ==
    /\ At("acquire")
    /\ \/ /\ \E i \in DOMAIN command_buffers \ acquired :
               \E sub \in (IF swapchain_stale THEN BOOLEAN ELSE {FALSE}) :
                  /\ image_index' = i
                  /\ acquire_suboptimal' = sub
                  /\ acquired' = acquired \cup {i}
                  /\ sync' = Append(sync, [op |-> "acquire",
                                           wait |-> NoHandle,
                                           signal |-> wait_semaphores,
                                           fence |-> NoHandle,
                                           image |-> i])
          /\ step' = step + 1
          /\ ops' = Append(ops, Op("acquire"))
          /\ UNCHANGED <<pc, result, exit_at, early>>
       \/ /\ swapchain_stale
          /\ Return("ok_true", "acquire_out_of_date")
          /\ UNCHANGED <<image_index, acquire_suboptimal, acquired, ops, sync>>
       \/ /\ Return("err", "acquire")
          /\ UNCHANGED <<image_index, acquire_suboptimal, acquired, ops, sync>>
    /\ UNCHANGED <<max_frames_in_flight, current_frame, inflight_fences,
                   command_buffers, was_resized, present_vk, gpu_queue,
                   swapchain_stale, call_frame, waits, resets, last_submit>>
    /\ UNCHANGED <<fsVars, flVars, selVars, restVars>>

\* self.frame_sync_objects.reset_fences(device, self.current_frame)?
\* a failed vkResetFences leaves the fence as it was
ResetFences ==
    /\ At("reset")
    /\ \/ /\ inflight_fences' = [inflight_fences EXCEPT ![current_frame] = FALSE]
          /\ step' = step + 1
          /\ ops' = Append(ops, Op("reset"))
          /\ resets' = [resets EXCEPT ![current_frame] = Inc(@)]
          /\ UNCHANGED <<pc, result, exit_at, early>>
       \/ /\ Return("err", "reset")
          /\ UNCHANGED <<inflight_fences, ops, resets>>
    /\ UNCHANGED <<max_frames_in_flight, current_frame, command_buffers,
                   image_index, was_resized, present_vk, acquire_suboptimal,
                   gpu_queue, acquired, swapchain_stale, call_frame, waits,
                   last_submit>>
    /\ UNCHANGED sync
    /\ UNCHANGED <<fsVars, flVars, selVars, restVars>>

\* queue_submit(graphics_queue, &submit_infos, wait_fence)?
QueueSubmit ==
    /\ At("submit")
    /\ \/ /\ Len(gpu_queue) < MaxPending
          /\ gpu_queue' = Append(gpu_queue,
                                 [slot |-> current_frame,
                                  image |-> image_index,
                                  buffer |-> command_buffer(image_index)])
          /\ last_submit' = [slot |-> current_frame,
                             waits |-> waits[current_frame],
                             resets |-> resets[current_frame],
                             early |-> early[current_frame]]
          /\ waits' = [waits EXCEPT ![current_frame] = 0]
          /\ resets' = [resets EXCEPT ![current_frame] = 0]
          /\ early' = [early EXCEPT ![current_frame] = 0]
          /\ step' = step + 1
          /\ ops' = Append(ops, Op("submit"))
          /\ sync' = Append(sync, [op |-> "submit",
                                   wait |-> wait_semaphores,
                                   signal |-> signal_semaphores,
                                   fence |-> wait_fence,
                                   image |-> image_index])
          /\ UNCHANGED <<pc, result, exit_at>>
       \/ /\ Return("err", "submit")
          /\ UNCHANGED <<gpu_queue, last_submit, waits, resets, ops, sync>>
    /\ UNCHANGED <<max_frames_in_flight, current_frame, inflight_fences,
                   command_buffers, image_index, was_resized, present_vk,
                   acquire_suboptimal, acquired, swapchain_stale, call_frame>>
    /\ UNCHANGED <<fsVars, flVars, selVars, restVars>>

\* swapchain.present_image(device, &signal_semaphores, image_index)?
PresentImage ==
    /\ At("present")
    /\ \E vk \in VkPresentResults :
          /\ vk \in {"SUBOPTIMAL_KHR", "ERROR_OUT_OF_DATE_KHR"} => swapchain_stale
          /\ present_vk' = vk
          /\ was_resized' = present_image(vk)
          /\ sync' = Append(sync, [op |-> "present",
                                   wait |-> signal_semaphores,
                                   signal |-> NoHandle,
                                   fence |-> NoHandle,
                                   image |-> image_index])
          /\ acquired' = IF vk \in {"ERROR_DEVICE_LOST", "ERROR_SURFACE_LOST_KHR"}
                         THEN acquired
                         ELSE acquired \ {image_index}
          /\ IF present_image(vk) = "err"
             THEN /\ Return("err", "present")
                  /\ UNCHANGED ops
             ELSE /\ step' = step + 1
                  /\ ops' = Append(ops, Op("present"))
                  /\ UNCHANGED <<pc, result, exit_at, early>>
    /\ UNCHANGED <<max_frames_in_flight, current_frame, inflight_fences,
                   command_buffers, image_index, acquire_suboptimal,
                   gpu_queue, swapchain_stale, call_frame, waits, resets,
                   last_submit>>
    /\ UNCHANGED <<fsVars, flVars, selVars, restVars>>

draw_result_flagging(resized, suboptimal) ==
    IF suboptimal THEN "ok_true" ELSE resized

\* the value of a draw call that presented: Ok(was_resized); the suboptimal
\* flag of acquire was dropped by the pattern Ok((image_index, _))
draw_result(resized, suboptimal) == resized

\* self.current_frame = next_frame(self.current_frame); Ok(was_resized)
Advance ==
    /\ At("advance")
    /\ current_frame' = next_frame(current_frame)
    /\ pc' = "returned"
    /\ step' = 0
    /\ result' = draw_result(was_resized, acquire_suboptimal)
    /\ exit_at' = "end"
    /\ ops' = Append(ops, Op("advance"))
    /\ UNCHANGED <<max_frames_in_flight, inflight_fences, command_buffers,
                   image_index, was_resized, present_vk, acquire_suboptimal,
                   gpu_queue, acquired, swapchain_stale, call_frame, waits,
                   resets, early, last_submit>>
    /\ UNCHANGED sync
    /\ UNCHANGED <<fsVars, flVars, selVars, restVars>>

(* ---------------------------------------------------------------------- *)
(* The GPU and the surface                                                 *)
(* ---------------------------------------------------------------------- *)

\* the GPU finishes a submission it accepted and signals the fence that
\* was handed to queue_submit
GpuComplete ==
    /\ \E k \in 1 .. Len(gpu_queue) :
          /\ inflight_fences' = [inflight_fences EXCEPT ![gpu_queue[k].slot] = TRUE]
          /\ gpu_queue' = RemoveAt(gpu_queue, k)
    /\ UNCHANGED <<max_frames_in_flight, current_frame, command_buffers, pc, step,
                   image_index, was_resized, present_vk, acquire_suboptimal,
                   acquired, swapchain_stale, ops, call_frame, result,
                   exit_at, waits, resets, early, last_submit>>
    /\ UNCHANGED sync
    /\ UNCHANGED <<fsVars, flVars, selVars, restVars>>

\* the window is resized: the swapchain no longer matches the surface
SurfaceChanged ==
    /\ ~swapchain_stale
    /\ swapchain_stale' = TRUE
    /\ UNCHANGED <<max_frames_in_flight, current_frame, inflight_fences,
                   command_buffers, pc, step, image_index, was_resized, present_vk,
                   acquire_suboptimal, gpu_queue, acquired, ops, call_frame,
                   result, exit_at, waits, resets, early, last_submit>>
    /\ UNCHANGED sync
    /\ UNCHANGED <<fsVars, flVars, selVars, restVars>>

(* ---------------------------------------------------------------------- *)
(* The render loop that calls Frame::draw                                  *)
(* ---------------------------------------------------------------------- *)

\* once per frame: update_world_data(frame.current_frame(), view, projection);
\* while pc = "update" the uniform buffer of the current slot is written
UpdateWorldData ==
    /\ pc = "idle"
    /\ pc' = "update"
    /\ UNCHANGED <<step, max_frames_in_flight, current_frame, inflight_fences,
                   command_buffers, image_index, was_resized, present_vk,
                   acquire_suboptimal, gpu_queue, acquired, swapchain_stale,
                   ops, call_frame, result, exit_at, waits, resets, early,
                   last_submit>>
    /\ UNCHANGED sync
    /\ UNCHANGED <<fsVars, flVars, selVars, restVars>>

\* a draw error is logged, and Ok(false) needs nothing: the loop continues
LoopContinue ==
    /\ pc = "returned"
    /\ result # "ok_true"
    /\ pc' = "idle"
    /\ UNCHANGED <<step, max_frames_in_flight, current_frame, inflight_fences,
                   command_buffers, image_index, was_resized, present_vk,
                   acquire_suboptimal, gpu_queue, acquired, swapchain_stale,
                   ops, call_frame, result, exit_at, waits, resets, early,
                   last_submit>>
    /\ UNCHANGED sync
    /\ UNCHANGED <<fsVars, flVars, selVars, restVars>>

\* resize-needed: wait idle, recreate the swapchain, Frame::recreate_logic
RecreateSwapchain ==
    /\ pc = "returned"
    /\ result = "ok_true"
    /\ gpu_queue = <<>>
    /\ swapchain_stale' = FALSE
    /\ acquired' = {}
    /\ command_buffers' = recreate_command_buffers(max_frames_in_flight)
    /\ pc' = "idle"
    /\ UNCHANGED <<step, max_frames_in_flight, current_frame, inflight_fences,
                   image_index, was_resized, present_vk, acquire_suboptimal,
                   gpu_queue, ops, call_frame, result, exit_at, waits, resets,
                   early, last_submit>>
    /\ UNCHANGED sync
    /\ UNCHANGED <<fsVars, flVars, selVars, restVars>>

Next ==
    \/ UpdateWorldData
    \/ DrawBegin
    \/ WaitForFence
    \/ AcquireNextImage
    \/ ResetFences
    \/ QueueSubmit
    \/ PresentImage
    \/ Advance
    \/ GpuComplete
    \/ SurfaceChanged
    \/ LoopContinue
    \/ RecreateSwapchain

Spec == Init /\ [][Next]_vars

TypeOK ==
    /\ current_frame \in Slots
    /\ pc \in {"idle", "update", "draw", "returned"}
    /\ (pc = "draw") = (step \in 1 .. Len(DrawOrder))
    /\ Len(gpu_queue) <= MaxPending

(* ====================================================================== *)
(* FrameSystem (rendering/frame_system.rs)                                 *)
(* ====================================================================== *)

\* results of swapchain.recreate_with_dimensions: a zero extent is never
\* within the extents the surface supports
RecreateResults(size) ==
    IF IsZeroSize(size)
    THEN {"UnsupportedDimensions", "Error"}
    ELSE {"Ok", "UnsupportedDimensions", "Error"}

AcquireResults == {"Ok", "Suboptimal", "OutOfDate", "Error"}

FlushResults == {"Ok", "OutOfDate", "Error"}

\* the match on the flush result in Frame::next_pass: only
\* Err(FlushError::OutOfDate) calls invalidate_swapchain
flush_invalidates_on_error(f) == f # "Ok"

flush_invalidates(f) == f = "OutOfDate"

recreate_outcome_ignoring(r) ==
    IF r = "Ok" THEN "recreated"
    ELSE IF r = "UnsupportedDimensions" THEN "kept"
    ELSE "panic"

\* the match on the result of recreate_with_dimensions in FrameSystem::frame
recreate_outcome(r) ==
    IF r = "Ok" THEN "recreated"
    ELSE IF r = "UnsupportedDimensions" THEN "return_none"
    ELSE "panic"

\* a Frame goes away: it was dropped, or it was never made
NoFrame ==
    /\ frame_alive' = FALSE
    /\ pass_index' = 0
    /\ taken_future' = "none"
    /\ primary_buffer' = "none"

\* Frame::new(self, frame_future, swapchain_image_index)
FrameCreated ==
    /\ frame_alive' = TRUE
    /\ pass_index' = 0
    /\ taken_future' = "some"
    /\ primary_buffer' = "none"
    /\ last_pass' = "none"
    /\ begins' = 0
    /\ submits' = 0

\* the second half of FrameSystem::frame: acquire_next_image and Frame::new
FrameAcquire(flag, done) ==
    \E a \in AcquireResults :
        /\ frame_ops' = Append(done, "acquire")
        /\ IF a = "OutOfDate"
           THEN /\ should_recreate_swapchain' = TRUE
                /\ frame_ret' = "None"
                /\ UNCHANGED <<frame_future, frame_alive, pass_index,
                               taken_future, primary_buffer, last_pass,
                               begins, submits, panicked>>
           ELSE IF a = "Error"
           THEN /\ should_recreate_swapchain' = flag
                /\ frame_ret' = "panic"
                /\ panicked' = "acquire"
                /\ UNCHANGED <<frame_future, frame_alive, pass_index,
                               taken_future, primary_buffer, last_pass,
                               begins, submits>>
           ELSE /\ should_recreate_swapchain' = (flag \/ a = "Suboptimal")
                /\ frame_future' = "none"
                /\ frame_ret' = "Some"
                /\ FrameCreated
                /\ UNCHANGED panicked

\* FrameSystem::frame
FrameSystemFrame ==
    /\ panicked = "no"
    /\ ~frame_alive
    /\ frame_call_window' = window_size
    /\ frame_call_flag' = should_recreate_swapchain
    /\ IF frame_future = "none"
       THEN /\ panicked' = "frame_unwrap"
            /\ frame_ret' = "panic"
            /\ frame_ops' = <<>>
            /\ UNCHANGED <<swapchain_dimensions, should_recreate_swapchain,
                           frame_future, attachments, framebuffers,
                           directional_input,
                           composing_input, frame_alive, pass_index,
                           taken_future, primary_buffer, last_pass, begins,
                           submits>>
       ELSE IF should_recreate_swapchain
       THEN \E r \in RecreateResults(window_size) :
               IF recreate_outcome(r) = "recreated"
               THEN /\ attachments < MaxRecreations
                    /\ swapchain_dimensions' = window_size
                    /\ attachments' = create_attachments(attachments)
                    /\ framebuffers' = create_framebuffers(attachments')
                    /\ directional_input' =
                           update_input(directional_input, attachments')
                    /\ composing_input' =
                           update_input(composing_input, attachments')
                    /\ FrameAcquire(FALSE, <<"recreate", "create_attachments",
                                             "create_framebuffers">>)
               ELSE IF recreate_outcome(r) = "return_none"
               THEN /\ frame_ret' = "None"
                    /\ frame_ops' = <<"recreate">>
                    /\ UNCHANGED <<swapchain_dimensions,
                                   should_recreate_swapchain, frame_future,
                                   attachments, framebuffers,
                                   directional_input,
                                   composing_input, frame_alive,
                                   pass_index, taken_future, primary_buffer,
                                   last_pass, begins, submits, panicked>>
               ELSE IF recreate_outcome(r) = "panic"
               THEN /\ panicked' = "recreate"
                    /\ frame_ret' = "panic"
                    /\ frame_ops' = <<"recreate">>
                    /\ UNCHANGED <<swapchain_dimensions,
                                   should_recreate_swapchain, frame_future,
                                   attachments, framebuffers,
                                   directional_input,
                                   composing_input, frame_alive,
                                   pass_index, taken_future, primary_buffer,
                                   last_pass, begins, submits>>
               ELSE /\ FrameAcquire(should_recreate_swapchain, <<"recreate">>)
                    /\ UNCHANGED <<swapchain_dimensions, attachments, framebuffers,
                                   directional_input,
                                   composing_input>>
       ELSE /\ FrameAcquire(should_recreate_swapchain, <<>>)
            /\ UNCHANGED <<swapchain_dimensions, attachments, framebuffers,
                           directional_input, composing_input>>
    /\ flush_result' = "none"
    /\ UNCHANGED window_size
    /\ UNCHANGED <<ashVars, flVars, selVars, restVars>>

\* FrameSystem::invalidate_swapchain
InvalidateSwapchain ==
    /\ panicked = "no"
    /\ ~frame_alive
    /\ should_recreate_swapchain' = TRUE
    /\ UNCHANGED <<window_size, swapchain_dimensions, frame_future,
                   attachments, framebuffers, directional_input,
                   composing_input, frame_alive, pass_index,
                   taken_future, primary_buffer, last_pass, begins, submits,
                   frame_ops, frame_ret, frame_call_window, frame_call_flag,
                   panicked>>
    /\ flush_result' = "none"
    /\ UNCHANGED <<ashVars, flVars, selVars, restVars>>

\* the fourth next_pass call of a Frame whose command buffer and future are
\* still in place: the one that builds, submits and flushes
Flushing ==
    /\ pass_index = 3
    /\ primary_buffer # "none"
    /\ taken_future # "none"

\* Frame::next_pass; pass_index is a u8: the increment wraps in a release
\* build and panics in a build with overflow checks
FrameNextPass ==
    /\ panicked = "no"
    /\ frame_alive
    /\ \/ /\ pass_index = 255
          /\ panicked' = "overflow"
          /\ UNCHANGED <<pass_index, primary_buffer, taken_future,
                         frame_future, should_recreate_swapchain, last_pass,
                         begins, submits>>
       \/ /\ pass_index' = (pass_index + 1) % 256
          /\ IF pass_index = 0
             THEN /\ primary_buffer' = "subpass0"
                  /\ begins' = Inc(begins)
                  /\ last_pass' = "Draw"
                  /\ UNCHANGED <<taken_future, frame_future,
                                 should_recreate_swapchain, submits, panicked>>
             ELSE IF pass_index \in {1, 2}
             THEN IF primary_buffer = "none"
                  THEN /\ panicked' = "next_pass_unwrap"
                       /\ UNCHANGED <<primary_buffer, taken_future,
                                      frame_future, should_recreate_swapchain,
                                      last_pass, begins, submits>>
                  ELSE /\ primary_buffer' =
                              IF pass_index = 1 THEN "subpass1" ELSE "subpass2"
                       /\ last_pass' =
                              IF pass_index = 1 THEN "Lighting" ELSE "Compose"
                       /\ UNCHANGED <<taken_future, frame_future,
                                      should_recreate_swapchain, begins,
                                      submits, panicked>>
             ELSE IF pass_index = 3
             THEN IF primary_buffer = "none" \/ taken_future = "none"
                  THEN /\ panicked' = "next_pass_unwrap"
                       /\ UNCHANGED <<primary_buffer, taken_future,
                                      frame_future, should_recreate_swapchain,
                                      last_pass, begins, submits>>
                  ELSE \E f \in FlushResults :
                          /\ flush_result' = f
                          /\ primary_buffer' = "none"
                          /\ taken_future' = "none"
                          /\ frame_future' = "some"
                          /\ should_recreate_swapchain' =
                                 (should_recreate_swapchain \/ flush_invalidates(f))
                          /\ submits' = Inc(submits)
                          /\ last_pass' = "None"
                          /\ UNCHANGED <<begins, panicked>>
             ELSE /\ last_pass' = "None"
                  /\ UNCHANGED <<primary_buffer, taken_future, frame_future,
                                 should_recreate_swapchain, begins, submits,
                                 panicked>>
    /\ UNCHANGED <<window_size, swapchain_dimensions, attachments, framebuffers,
                   directional_input, composing_input,
                   frame_alive, frame_ops, frame_ret, frame_call_window,
                   frame_call_flag>>
    /\ (Flushing /\ pass_index' # pass_index) \/ flush_result' = "none"
    /\ UNCHANGED <<ashVars, flVars, selVars, restVars>>

\* the Frame goes out of scope, after any number of next_pass calls
DropFrame ==
    /\ panicked = "no"
    /\ frame_alive
    /\ NoFrame
    /\ UNCHANGED <<window_size, swapchain_dimensions,
                   should_recreate_swapchain, frame_future,
                   attachments, framebuffers, directional_input,
                   composing_input, last_pass, begins, submits,
                   frame_ops, frame_ret, frame_call_window, frame_call_flag,
                   panicked>>
    /\ flush_result' = "none"
    /\ UNCHANGED <<ashVars, flVars, selVars, restVars>>

\* the user resizes or minimizes the window; the size is read only by
\* FrameSystem::frame, which cannot run while a Frame borrows the system
WindowResized ==
    /\ panicked = "no"
    /\ ~frame_alive
    /\ \E size \in Dims \ {window_size} : window_size' = size
    /\ UNCHANGED <<swapchain_dimensions, should_recreate_swapchain,
                   frame_future, attachments, framebuffers,
                   directional_input, composing_input,
                   frame_alive, pass_index, taken_future, primary_buffer,
                   last_pass, begins, submits, frame_ops, frame_ret,
                   frame_call_window, frame_call_flag, panicked>>
    /\ flush_result' = "none"
    /\ UNCHANGED <<ashVars, flVars, selVars, restVars>>

InitFS ==
    /\ FrameNew(1)
    /\ \E size \in Dims : ~IsZeroSize(size) /\ FrameSystemNew(size)
    /\ NoCall
    /\ RestIdle

NextFS ==
    \/ FrameSystemFrame
    \/ InvalidateSwapchain
    \/ FrameNextPass
    \/ DropFrame
    \/ WindowResized

SpecFS == InitFS /\ [][NextFS]_vars

TypeOKFS ==
    /\ window_size \in Dims
    /\ ~IsZeroSize(swapchain_dimensions)
    /\ pass_index \in 0 .. 255
    /\ frame_future \in {"some", "none"}
    /\ flush_result \in FlushResults \cup {"none"}
    /\ attachments \in 0 .. MaxRecreations

(* ====================================================================== *)
(* FrameLogic and Swapchain: creation and destruction of handles          *)
(* (rendering/frame/frame_logic.rs, rendering/swapchain.rs)                *)
(* ====================================================================== *)

\* FrameLogic::recreate_frame_buffers; a create call of the closure may
\* fail, the `?` then returns before self.framebuffers is assigned
RecreateFrameBuffers ==
    /\ logic = "alive"
    /\ swapchain = "alive"
    /\ logic_recreations < MaxRecreations
    /\ logic_recreations' = logic_recreations + 1
    /\ destroyed_log' = destroyed_log \o destroy_framebuffers
    /\ \E created \in 0 .. (3 * max_frames_in_flight) :
          /\ handles' = DestroyAll(handles, destroy_framebuffers) \o
                        CreateFramebuffers(Len(handles), created)
          /\ IF created = 3 * max_frames_in_flight
             THEN /\ logic_framebuffers' =
                        CollectedFramebuffers(Len(handles), max_frames_in_flight)
                  /\ logic_result' = "ok"
             ELSE /\ UNCHANGED logic_framebuffers
                  /\ logic_result' = "err"
    /\ UNCHANGED <<logic_command_buffers, logic, swapchain>>
    /\ UNCHANGED <<ashVars, fsVars, selVars, restVars>>

\* FrameLogic::recreate_command_buffers; the allocation may fail, and so
\* may begin_command_buffer or end_command_buffer after it
RecreateCommandBuffers ==
    /\ logic = "alive"
    /\ swapchain = "alive"
    /\ logic_recreations < MaxRecreations
    /\ logic_recreations' = logic_recreations + 1
    /\ destroyed_log' = destroyed_log \o free_command_buffers
    /\ \E outcome \in {"allocate_failed", "record_failed", "ok"} :
          IF outcome = "allocate_failed"
          THEN /\ handles' = DestroyAll(handles, free_command_buffers)
               /\ UNCHANGED logic_command_buffers
               /\ logic_result' = "err"
          ELSE /\ handles' = DestroyAll(handles, free_command_buffers) \o
                             AllocateCommandBuffers(max_frames_in_flight)
               /\ logic_command_buffers' =
                     [i \in 1 .. max_frames_in_flight |-> Len(handles) + i]
               /\ logic_result' = IF outcome = "ok" THEN "ok" ELSE "err"
    /\ UNCHANGED <<logic_framebuffers, logic, swapchain>>
    /\ UNCHANGED <<ashVars, fsVars, selVars, restVars>>

\* FrameLogic::destroy: the handles in the order destroyed
destroy ==
    free_command_buffers \o destroy_framebuffers \o
    <<HandleOf("graphics_pipeline"), HandleOf("deferred_render_pass"),
      HandleOf("pipeline_layout"), HandleOf("vertex_shader_module"),
      HandleOf("fragment_shader_module")>>

\* FrameLogic::destroy
FrameLogicDestroy ==
    /\ logic = "alive"
    /\ logic' = "destroyed"
    /\ handles' = DestroyAll(handles, destroy)
    /\ destroyed_log' = destroyed_log \o destroy
    /\ UNCHANGED <<logic_framebuffers, logic_command_buffers, swapchain,
                   logic_recreations, logic_result>>
    /\ UNCHANGED <<ashVars, fsVars, selVars, restVars>>

\* Swapchain::destroy: the handles in the order destroyed
swapchain_destroy ==
    [i \in 1 .. max_frames_in_flight |-> image_views(i - 1)] \o
    <<HandleOf("swapchain")>>

\* Swapchain::destroy, called once the Frame rendering to it is destroyed
SwapchainDestroy ==
    /\ swapchain = "alive"
    /\ logic = "destroyed"
    /\ swapchain' = "destroyed"
    /\ handles' = DestroyAll(handles, swapchain_destroy)
    /\ destroyed_log' = destroyed_log \o swapchain_destroy
    /\ UNCHANGED <<logic_framebuffers, logic_command_buffers, logic,
                   logic_recreations, logic_result>>
    /\ UNCHANGED <<ashVars, fsVars, selVars, restVars>>

NextFL ==
    \/ RecreateFrameBuffers
    \/ RecreateCommandBuffers
    \/ FrameLogicDestroy
    \/ SwapchainDestroy

SpecFL == Init /\ [][NextFL]_vars

TypeOKFL ==
    /\ logic \in {"alive", "destroyed"}
    /\ swapchain \in {"alive", "destroyed"}
    /\ logic_recreations \in 0 .. MaxRecreations
    /\ Len(logic_framebuffers) = max_frames_in_flight
    /\ Len(logic_command_buffers) = max_frames_in_flight
    /\ \A id \in DOMAIN handles : handles[id].deps \subseteq DOMAIN handles

(* ====================================================================== *)
(* The selection functions (rendering/swapchain.rs, rendering/buffer.rs)   *)
(* ====================================================================== *)

\* the unsigned integers of the model are this many bits wide
WordBits == 4

\* largest width and height a surface reports
MaxExtent == 2

\* longest list of surface formats
MaxFormats == 3

\* largest image count a surface reports
MaxImageCount == 4

\* number of memory types of the device
MaxMemoryTypes == 3

\* u32::max_value(), the value of current_extent that means "not fixed"
u32_max_value == 2^WordBits - 1

Extents == [width : 0 .. MaxExtent, height : 0 .. MaxExtent]

\* what a surface reports: the current extent is a fixed extent or the
\* special value (0xFFFFFFFF, 0xFFFFFFFF), and min <= max component-wise
SurfaceCapabilities ==
    {c \in [current_extent : Extents \cup {[width |-> u32_max_value,
                                            height |-> u32_max_value]},
            min_image_extent : Extents,
            max_image_extent : Extents] :
        /\ c.min_image_extent.width <= c.max_image_extent.width
        /\ c.min_image_extent.height <= c.max_image_extent.height}

WindowSizes == (0 .. (MaxExtent + 1)) \X (0 .. (MaxExtent + 1))

clamp_unbounded(input, min, max) == input

\* num::clamp
clamp(input, min, max) ==
    IF input < min THEN min ELSE IF input > max THEN max ELSE input

\* choose_swapchain_extent
choose_swapchain_extent(capabilities, size) ==
    IF capabilities.current_extent.width # u32_max_value
    THEN capabilities.current_extent
    ELSE [width |-> clamp(size[1], capabilities.min_image_extent.width,
                          capabilities.max_image_extent.width),
          height |-> clamp(size[2], capabilities.min_image_extent.height,
                           capabilities.max_image_extent.height)]

SurfaceFormats ==
    [format : {"B8G8R8A8_SRGB", "B8G8R8A8_UNORM", "R8G8B8A8_SRGB"},
     color_space : {"SRGB_NONLINEAR", "EXTENDED_SRGB_LINEAR"}]

\* the non-empty lists of surface formats of at most MaxFormats elements
FormatLists ==
    UNION {[1 .. n -> SurfaceFormats] : n \in 1 .. MaxFormats}

\* the loop of choose_swapchain_format from element i on, and the
\* statement after it
RECURSIVE choose_swapchain_format_from(_, _)
choose_swapchain_format_from(available_formats, i) ==
    IF i > Len(available_formats)
    THEN available_formats[1]
    ELSE IF /\ available_formats[i].format = "B8G8R8A8_SRGB"
            /\ available_formats[i].color_space = "SRGB_NONLINEAR"
    THEN available_formats[i]
    ELSE choose_swapchain_format_from(available_formats, i + 1)

choose_swapchain_format_first(available_formats) == available_formats[1]

\* choose_swapchain_format
choose_swapchain_format(available_formats) ==
    choose_swapchain_format_from(available_formats, 1)

\* the image counts a surface reports: max = 0 (no limit) or max >= min
ImageCounts ==
    {c \in [min_image_count : 1 .. MaxImageCount,
            max_image_count : 0 .. MaxImageCount] :
        c.max_image_count = 0 \/ c.max_image_count >= c.min_image_count}

image_count_unclamped(min_image_count, max_image_count) ==
    (min_image_count + 1) % (2^WordBits)

\* the image count Swapchain::new asks for
image_count(min_image_count, max_image_count) ==
    IF max_image_count > 0
    THEN Min((min_image_count + 1) % (2^WordBits), max_image_count)
    ELSE (min_image_count + 1) % (2^WordBits)

MemoryPropertyFlags == {"DEVICE_LOCAL", "HOST_VISIBLE"}

\* memory_properties.memory_types: the property flags of every type
MemoryTypes == [1 .. MaxMemoryTypes -> SUBSET MemoryPropertyFlags]

\* a & b on unsigned integers
RECURSIVE BitAnd(_, _)
BitAnd(a, b) ==
    IF a = 0 \/ b = 0
    THEN 0
    ELSE (a % 2) * (b % 2) + 2 * BitAnd(a \div 2, b \div 2)

contains_any(flags, required) == flags \cap required # {}

\* vk::MemoryPropertyFlags::contains
contains(flags, required) == required \subseteq flags

\* the loop of find_memory_type from index i on, and the statement after it
RECURSIVE find_memory_type_from(_, _, _, _)
find_memory_type_from(memory_types, required_properties, type_filter, i) ==
    IF i >= Len(memory_types)
    THEN [ok |-> FALSE, index |-> 0]
    ELSE IF /\ BitAnd(type_filter, 2^i) > 0
            /\ contains(memory_types[i + 1], required_properties)
    THEN [ok |-> TRUE, index |-> i]
    ELSE find_memory_type_from(memory_types, required_properties,
                               type_filter, i + 1)

\* find_memory_type
find_memory_type(memory_types, required_properties, type_filter) ==
    find_memory_type_from(memory_types, required_properties, type_filter, 0)

\* a call of one of the functions with arguments a surface, a window or a
\* device can give
InitSel ==
    /\ FrameNew(1)
    /\ FrameSystemNew(<<1, 1>>)
    /\ RestIdle
    /\ returned = FALSE
    /\ ret = <<>>
    /\ \/ /\ call = "choose_swapchain_extent"
          /\ \E c \in SurfaceCapabilities : \E w \in WindowSizes :
                args = [capabilities |-> c, size |-> w]
       \/ /\ call = "choose_swapchain_format"
          /\ \E l \in FormatLists : args = [available_formats |-> l]
       \/ /\ call = "image_count"
          /\ \E c \in ImageCounts : args = c
       \/ /\ call = "find_memory_type"
          /\ \E m \in MemoryTypes :
             \E r \in SUBSET MemoryPropertyFlags :
             \E f \in 0 .. (2^MaxMemoryTypes - 1) :
                args = [memory_types |-> m, required_properties |-> r,
                        type_filter |-> f]

Returns(value) ==
    /\ ~returned
    /\ returned' = TRUE
    /\ ret' = value
    /\ UNCHANGED <<call, args>>
    /\ UNCHANGED <<ashVars, fsVars, flVars, restVars>>

ChooseSwapchainExtent ==
    /\ call = "choose_swapchain_extent"
    /\ Returns(choose_swapchain_extent(args.capabilities, args.size))

ChooseSwapchainFormat ==
    /\ call = "choose_swapchain_format"
    /\ Returns(choose_swapchain_format(args.available_formats))

SelectImageCount ==
    /\ call = "image_count"
    /\ Returns(image_count(args.min_image_count, args.max_image_count))

FindMemoryType ==
    /\ call = "find_memory_type"
    /\ Returns(find_memory_type(args.memory_types, args.required_properties,
                                args.type_filter))

NextSel ==
    \/ ChooseSwapchainExtent
    \/ ChooseSwapchainFormat
    \/ SelectImageCount
    \/ FindMemoryType

SpecSel == InitSel /\ [][NextSel]_vars

TypeOKSel ==
    /\ call \in {"choose_swapchain_extent", "choose_swapchain_format",
                 "image_count", "find_memory_type"}
    /\ returned \in BOOLEAN

(* ====================================================================== *)
(* Device selection (rendering/device.rs)                                  *)
(* ====================================================================== *)

\* devices enumerate_physical_devices may give
MaxDevices == 2

\* queue families of one device
MaxQueueFamilies == 2

\* the extensions check_physical_device inserts into required_extensions
RequiredExtensions == {"VK_KHR_swapchain", "VK_NV_ray_tracing"}

\* the queue families a device reports: with queues and any combination of
\* graphics and present support, or without queues
QueueFamilies ==
    [queue_count : {1}, graphics : BOOLEAN, present_support : BOOLEAN] \cup
    {[queue_count |-> 0, graphics |-> TRUE, present_support |-> TRUE]}

QueueFamilyLists ==
    UNION {[1 .. n -> QueueFamilies] : n \in 0 .. MaxQueueFamilies}

\* the Vulkan queries of check_physical_device that return a Result
Queries == {"enumerate_device_extension_properties",
            "query_swapchain_support",
            "get_physical_device_surface_support"}

\* what the driver reports for one device: the required extensions it
\* lists, how many surface formats and present modes, its queue families,
\* and the query that fails for it, if any
PhysicalDevices ==
    [device_extensions : SUBSET RequiredExtensions,
     available_formats : 0 .. 1,
     available_present_modes : 0 .. 1,
     queue_families : QueueFamilyLists,
     failing : Queries \cup {"none"}]

is_complete(indices) ==
    indices.graphics_family # None /\ indices.present_family # None

CheckOk(indices) == [ok |-> TRUE, indices |-> indices]

CheckErr == [ok |-> FALSE, indices |-> DefaultIndices]

\* the loop over device_queue_families, from position index
RECURSIVE find_families(_, _, _)
find_families(device, index, queue_family_indices) ==
    IF index >= Len(device.queue_families)
    THEN CheckOk(queue_family_indices)
    ELSE LET queue_family == device.queue_families[index + 1]
             with_graphics ==
                 IF queue_family.graphics
                 THEN [queue_family_indices EXCEPT !.graphics_family = index]
                 ELSE queue_family_indices
             with_present ==
                 IF queue_family.present_support
                 THEN [with_graphics EXCEPT !.present_family = index]
                 ELSE with_graphics
         IN  IF queue_family.queue_count = 0
             THEN find_families(device, index + 1, queue_family_indices)
             ELSE IF device.failing = "get_physical_device_surface_support"
             THEN CheckErr
             ELSE IF is_complete(with_present)
             THEN CheckOk(with_present)
             ELSE find_families(device, index + 1, with_present)

check_physical_device(device) ==
    IF device.failing = "enumerate_device_extension_properties"
    THEN CheckErr
    ELSE IF RequiredExtensions \ device.device_extensions # {}
    THEN CheckOk(DefaultIndices)
    ELSE IF device.failing = "query_swapchain_support"
    THEN CheckErr
    ELSE IF device.available_formats = 0 \/ device.available_present_modes = 0
    THEN CheckOk(DefaultIndices)
    ELSE find_families(device, 0, DefaultIndices)

\* the device satisfies every constraint: the required extensions, at
\* least one surface format and present mode, a queue family with graphics
\* and one that can present
Suitable(device) ==
    /\ RequiredExtensions \subseteq device.device_extensions
    /\ device.available_formats > 0
    /\ device.available_present_modes > 0
    /\ \E i \in DOMAIN device.queue_families :
          /\ device.queue_families[i].queue_count > 0
          /\ device.queue_families[i].graphics
    /\ \E i \in DOMAIN device.queue_families :
          /\ device.queue_families[i].queue_count > 0
          /\ device.queue_families[i].present_support

PickReturns(value) ==
    /\ pick_pc' = "returned"
    /\ pick_ret' = value

\* line 189: instance.enumerate_physical_devices()?
EnumeratePhysicalDevices ==
    /\ pick_pc = "enumerate"
    /\ \/ /\ \E n \in 0 .. MaxDevices : physical_devices' = n
          /\ pick_pc' = "loop"
          /\ UNCHANGED pick_ret
       \/ /\ PickReturns([NoPickReturn EXCEPT !.error = "enumerate"])
          /\ UNCHANGED physical_devices
    /\ UNCHANGED <<checked, picked>>
    /\ UNCHANGED <<ashVars, fsVars, flVars, selVars, recVars, blendVars,
                   pipeVars, bufVars>>

\* lines 192-198: one iteration of the loop over physical_devices
CheckPhysicalDevice ==
    /\ pick_pc = "loop"
    /\ Len(checked) < physical_devices
    /\ \E device \in PhysicalDevices :
          LET indices == check_physical_device(device)
              physical_device == Len(checked) + 1
          IN  /\ checked' = Append(checked, [suitable |-> Suitable(device),
                                             failing |-> device.failing,
                                             indices |-> indices])
              /\ IF ~indices.ok
                 THEN /\ PickReturns([NoPickReturn EXCEPT !.error = "query"])
                      /\ UNCHANGED picked
                 ELSE /\ picked' =
                            IF is_complete(indices.indices)
                               /\ picked = NothingPicked
                            THEN [device |-> physical_device,
                                  indices |-> indices.indices]
                            ELSE picked
                      /\ UNCHANGED <<pick_pc, pick_ret>>
    /\ UNCHANGED physical_devices
    /\ UNCHANGED <<ashVars, fsVars, flVars, selVars, recVars, blendVars,
                   pipeVars, bufVars>>

\* lines 200-203: the match on result
PickPhysicalDeviceReturn ==
    /\ pick_pc = "loop"
    /\ Len(checked) = physical_devices
    /\ PickReturns(IF picked = NothingPicked
                   THEN [NoPickReturn EXCEPT !.error = "no suitable"]
                   ELSE [ok |-> TRUE, error |-> "none",
                         device |-> picked.device,
                         indices |-> picked.indices])
    /\ UNCHANGED <<physical_devices, checked, picked>>
    /\ UNCHANGED <<ashVars, fsVars, flVars, selVars, recVars, blendVars,
                   pipeVars, bufVars>>

InitDev ==
    /\ FrameNew(1)
    /\ FrameSystemNew(<<1, 1>>)
    /\ NoCall
    /\ PickAt("enumerate")
    /\ FrameLogicRecorded(1, <<1, 1>>)
    /\ LightCleared
    /\ SimpleFrameLogicNew
    /\ NoBuffers

NextDev ==
    \/ EnumeratePhysicalDevices
    \/ CheckPhysicalDevice
    \/ PickPhysicalDeviceReturn

SpecDev == InitDev /\ [][NextDev]_vars

TypeOKDev ==
    /\ pick_pc \in {"enumerate", "loop", "returned"}
    /\ physical_devices \in 0 .. MaxDevices
    /\ Len(checked) <= physical_devices
    /\ picked.device \in 0 .. Len(checked)

(* ====================================================================== *)
(* FrameLogic: what the framebuffers and command buffers are built from    *)
(* (rendering/frame/frame_logic.rs, rendering/frame/mod.rs)                *)
(* ====================================================================== *)

\* recreate_frame_buffers replaces self.framebuffers when every create call
\* succeeded and leaves it when one failed
recreate_frame_buffers_appending(ok) ==
    IF ok THEN rec_framebuffers \o CreatedFramebuffers ELSE rec_framebuffers

recreate_frame_buffers(ok) ==
    IF ok THEN CreatedFramebuffers ELSE rec_framebuffers

\* recreate_command_buffers with `built` as self.framebuffers: allocation fails
\* (fail_at = -1), begin_command_buffer fails for command buffer fail_at, or
\* nothing fails (fail_at = image count); recording stops at the first
\* failure or out-of-bounds index
RecordingStop(built, fail_at) ==
    Min(FirstPanic(built, 0, rec_swapchain.image_count), fail_at)

recreate_command_buffers_in(built, fail_at) ==
    IF fail_at = -1
    THEN [command_buffers |-> rec_command_buffers, ok |-> FALSE,
          panicked |-> FALSE]
    ELSE [command_buffers |->
              RecordedUntil(rec_swapchain.image_count,
                            RecordingStop(built, fail_at)),
          ok |-> RecordingStop(built, fail_at)
                    = rec_swapchain.image_count,
          panicked |-> RecordingStop(built, fail_at) < fail_at]

RecCall(name, ok, index) ==
    [call |-> name, ok |-> ok, image_index |-> index]

\* FrameLogic::update_meshes
UpdateMeshes ==
    /\ ~rec_panicked
    /\ \E list \in MeshLists : /\ list # meshes
                               /\ meshes' = list
    /\ rec_last' = RecCall("update_meshes", TRUE, 0)
    /\ rec_before' = NoSnapshot
    /\ UNCHANGED <<rec_swapchain, descriptor_sets, rec_framebuffers,
                   rec_command_buffers, rec_panicked>>
    /\ UNCHANGED <<ashVars, fsVars, flVars, selVars, devVars, blendVars,
                   pipeVars, bufVars>>

\* the swapchain was destroyed and Swapchain::new gave another one
SwapchainReplaced ==
    /\ ~rec_panicked
    /\ \E n \in 1 .. MaxImages : \E extent \in SwapchainExtents :
          /\ [image_count |-> n, extent |-> extent] # rec_swapchain
          /\ rec_swapchain' = [image_count |-> n, extent |-> extent]
    /\ rec_last' = RecCall("Swapchain::new", TRUE, 0)
    /\ rec_before' = NoSnapshot
    /\ UNCHANGED <<descriptor_sets, meshes, rec_framebuffers,
                   rec_command_buffers, rec_panicked>>
    /\ UNCHANGED <<ashVars, fsVars, flVars, selVars, devVars, blendVars,
                   pipeVars, bufVars>>

\* Frame::recreate_logic: recreate_frame_buffers, then, unless it failed,
\* recreate_command_buffers
RecreateLogic ==
    /\ ~rec_panicked
    /\ \E frame_buffers_ok \in BOOLEAN :
       \E fail_at \in -1 .. rec_swapchain.image_count :
          LET built == recreate_frame_buffers(frame_buffers_ok)
              recorded == recreate_command_buffers_in(built, fail_at)
          IN  /\ rec_framebuffers' = built
              /\ IF frame_buffers_ok
                 THEN /\ rec_command_buffers' = recorded.command_buffers
                      /\ rec_panicked' = recorded.panicked
                      /\ rec_last' = RecCall("recreate_logic", recorded.ok, 0)
                 ELSE /\ fail_at = -1
                      /\ UNCHANGED <<rec_command_buffers, rec_panicked>>
                      /\ rec_last' = RecCall("recreate_logic", FALSE, 0)
    /\ rec_before' =
          IF rec_last.call = "recreate_logic" /\ rec_last.ok
          THEN [framebuffers |-> rec_framebuffers,
                command_buffers |-> rec_command_buffers, taken |-> TRUE]
          ELSE NoSnapshot
    /\ UNCHANGED <<rec_swapchain, descriptor_sets, meshes>>
    /\ UNCHANGED <<ashVars, fsVars, flVars, selVars, devVars, blendVars,
                   pipeVars, bufVars>>

\* FrameLogic::recreate_command_buffers called through Frame::logic_mut
RerecordCommandBuffers ==
    /\ ~rec_panicked
    /\ \E fail_at \in -1 .. rec_swapchain.image_count :
          LET recorded == recreate_command_buffers_in(rec_framebuffers, fail_at)
          IN  /\ rec_command_buffers' = recorded.command_buffers
              /\ rec_panicked' = recorded.panicked
              /\ rec_last' = RecCall("recreate_command_buffers", recorded.ok, 0)
    /\ rec_before' = NoSnapshot
    /\ UNCHANGED <<rec_swapchain, descriptor_sets, meshes, rec_framebuffers>>
    /\ UNCHANGED <<ashVars, fsVars, flVars, selVars, devVars, blendVars,
                   pipeVars, bufVars>>

\* Frame::draw, line 54: the command buffer of the acquired image is the
\* one submitted
SubmitCommandBuffer ==
    /\ ~rec_panicked
    /\ \E acquired_image \in 0 .. (rec_swapchain.image_count - 1) :
          /\ rec_panicked' = (acquired_image >= Len(rec_command_buffers))
          /\ rec_last' = RecCall("draw",
                                 acquired_image < Len(rec_command_buffers),
                                 acquired_image)
    /\ rec_before' = NoSnapshot
    /\ UNCHANGED <<rec_swapchain, descriptor_sets, meshes, rec_framebuffers,
                   rec_command_buffers>>
    /\ UNCHANGED <<ashVars, fsVars, flVars, selVars, devVars, blendVars,
                   pipeVars, bufVars>>

InitRec ==
    /\ FrameNew(1)
    /\ FrameSystemNew(<<1, 1>>)
    /\ NoCall
    /\ PickAt("idle")
    /\ \E n \in 1 .. MaxImages : \E extent \in SwapchainExtents :
          FrameLogicRecorded(n, extent)
    /\ LightCleared
    /\ SimpleFrameLogicNew
    /\ NoBuffers

NextRec ==
    \/ UpdateMeshes
    \/ SwapchainReplaced
    \/ RecreateLogic
    \/ RerecordCommandBuffers
    \/ SubmitCommandBuffer

SpecRec == InitRec /\ [][NextRec]_vars

TypeOKRec ==
    /\ rec_swapchain.image_count \in 1 .. MaxImages
    /\ descriptor_sets \in 1 .. MaxImages
    /\ meshes \in MeshLists
    /\ Len(rec_framebuffers) \in 0 .. MaxImages
    /\ Len(rec_command_buffers) \in 0 .. MaxImages
    /\ rec_panicked \in BOOLEAN

(* ====================================================================== *)
(* The lighting subpass: blending of the light draws                       *)
(* (rendering/lighting_systems/mod.rs, rendering/frame_system.rs)          *)
(* ====================================================================== *)

\* light draws in one lighting subpass
MaxLights == 2

\* the largest value a channel of the attachment holds (1.0 of a UNORM
\* format), in steps of the format
ChannelMax == 2

\* the colours a light is given, per channel in steps of the format
Colors == [1 .. 3 -> 0 .. ChannelMax]

\* 0.0 and 1.0 (full intensity)
Intensities == 0 .. 1

AttachmentBlendOverwriting ==
    [enabled |-> TRUE,
     color_op |-> "Add", color_source |-> "One", color_destination |-> "Zero",
     alpha_op |-> "Max", alpha_source |-> "One", alpha_destination |-> "One"]

\* the AttachmentBlend the lighting pipelines are built with
AttachmentBlend ==
    [enabled |-> TRUE,
     color_op |-> "Add", color_source |-> "One", color_destination |-> "One",
     alpha_op |-> "Max", alpha_source |-> "One", alpha_destination |-> "One"]

\* BlendFactor::One and BlendFactor::Zero applied to a channel value
BlendFactor(factor, value) == IF factor = "One" THEN value ELSE 0

\* BlendOp::Add and BlendOp::Max
BlendOp(op, source, destination) ==
    IF op = "Add" THEN source + destination
    ELSE IF source >= destination THEN source ELSE destination

\* a value written to a UNORM attachment is clamped to what it represents
ClampChannel(value) == Min(value, ChannelMax)

\* the blend equation of one draw: source is the fragment output,
\* destination the texel of the attachment
Blend(state, source, destination) ==
    IF ~state.enabled
    THEN [c \in 1 .. 4 |-> ClampChannel(source[c])]
    ELSE [c \in 1 .. 4 |->
            IF c <= 3
            THEN ClampChannel(BlendOp(state.color_op,
                     BlendFactor(state.color_source, ClampChannel(source[c])),
                     BlendFactor(state.color_destination, destination[c])))
            ELSE ClampChannel(BlendOp(state.alpha_op,
                     BlendFactor(state.alpha_source, ClampChannel(source[c])),
                     BlendFactor(state.alpha_destination, destination[c])))]

\* the colour the fragment shader of a light puts out for a fully lit
\* texel: the colour of the light times its intensity, alpha 1.0
fragment_output(color, intensity) ==
    <<color[1] * intensity, color[2] * intensity, color[3] * intensity,
      ChannelMax>>

\* one light draw executed in the lighting subpass
LightDraw(color, intensity) ==
    /\ light_draws < MaxLights
    /\ light_draws' = light_draws + 1
    /\ light' = Blend(AttachmentBlend, fragment_output(color, intensity), light)
    /\ light_sum' = [c \in 1 .. 3 |->
                        light_sum[c] + fragment_output(color, intensity)[c]]
    /\ UNCHANGED <<ashVars, fsVars, flVars, selVars, devVars, recVars,
                   pipeVars, bufVars>>

\* LightingPass::ambient
LightingPassAmbient ==
    /\ \E color \in Colors : \E intensity \in Intensities :
          LightDraw(color, intensity)
    /\ UNCHANGED full_directional

\* LightingPass::directional
LightingPassDirectional ==
    \E color \in Colors : \E intensity \in Intensities :
        /\ LightDraw(color, intensity)
        /\ full_directional' =
              IF intensity = 1 THEN full_directional + 1 ELSE full_directional

InitBlend ==
    /\ FrameNew(1)
    /\ FrameSystemNew(<<1, 1>>)
    /\ NoCall
    /\ RestIdle

NextBlend ==
    \/ LightingPassAmbient
    \/ LightingPassDirectional

SpecBlend == InitBlend /\ [][NextBlend]_vars

TypeOKBlend ==
    /\ light \in [1 .. 4 -> 0 .. ChannelMax]
    /\ light_draws \in 0 .. MaxLights
    /\ full_directional \in 0 .. light_draws

(* ====================================================================== *)
(* SimpleFrameLogic::recreate_pipeline (rendering/frame.rs)                *)
(* ====================================================================== *)

\* recreate_pipeline calls in one run
MaxPipelineCalls == 7

RecreatePipelineDestroyFirst == <<"destroy", "create", "assign">>

\* the statements of recreate_pipeline that touch a pipeline, in order:
\* create_graphics_pipelines (335-340), destroy_pipeline (344-346), the
\* assignment to self.graphics_pipeline (348)
RecreatePipelineOrder == <<"create", "destroy", "assign">>

\* recreate_pipeline from statement k on; `created_ok` tells whether
\* create_graphics_pipelines succeeds; st holds self.graphics_pipeline
\* (stored), the local graphics_pipeline (new), the pipelines alive, the
\* log and the result
RECURSIVE recreate_pipeline_from(_, _, _)
recreate_pipeline_from(k, st, created_ok) ==
    IF k > Len(RecreatePipelineOrder)
    THEN st
    ELSE IF RecreatePipelineOrder[k] = "create"
    THEN IF created_ok
         THEN recreate_pipeline_from(k + 1,
                  [st EXCEPT !.new = st.next,
                             !.alive = @ \cup {st.next},
                             !.log = Append(@, [op |-> "create",
                                                pipeline |-> st.next])],
                  created_ok)
         ELSE [st EXCEPT !.ok = FALSE,
                         !.log = Append(@, [op |-> "failed",
                                            pipeline |-> NullPipeline])]
    ELSE IF RecreatePipelineOrder[k] = "destroy"
    THEN recreate_pipeline_from(k + 1,
             IF st.stored # NullPipeline
             THEN [st EXCEPT !.alive = @ \ {st.stored},
                             !.log = Append(@, [op |-> "destroy",
                                                pipeline |-> st.stored])]
             ELSE st,
             created_ok)
    ELSE recreate_pipeline_from(k + 1, [st EXCEPT !.stored = st.new],
                                created_ok)

\* the pipelines created so far
PipelinesCreated ==
    Cardinality({k \in DOMAIN pipeline_log : pipeline_log[k].op = "create"})

\* recreate_pipeline calls made so far
PipelineCalls ==
    Cardinality({k \in DOMAIN pipeline_log : pipeline_log[k].op # "destroy"})

\* SimpleFrameLogic::recreate_pipeline
RecreatePipeline ==
    /\ PipelineCalls < MaxPipelineCalls
    /\ \E created_ok \in BOOLEAN :
          LET st == recreate_pipeline_from(1,
                        [stored |-> graphics_pipeline,
                         new |-> NullPipeline,
                         next |-> PipelinesCreated + 1,
                         alive |-> pipelines_alive,
                         log |-> pipeline_log,
                         ok |-> TRUE],
                        created_ok)
          IN  /\ graphics_pipeline' = st.stored
              /\ pipelines_alive' = st.alive
              /\ pipeline_log' = st.log
              /\ pipeline_ret' = IF st.ok THEN "ok" ELSE "err"
    /\ pipeline_before' = graphics_pipeline
    /\ UNCHANGED <<ashVars, fsVars, flVars, selVars, devVars, recVars,
                   blendVars, bufVars>>

InitPipe ==
    /\ FrameNew(1)
    /\ FrameSystemNew(<<1, 1>>)
    /\ NoCall
    /\ RestIdle

NextPipe ==
    \/ RecreatePipeline

SpecPipe == InitPipe /\ [][NextPipe]_vars

TypeOKPipe ==
    /\ graphics_pipeline \in 0 .. MaxPipelineCalls
    /\ pipelines_alive \subseteq 1 .. MaxPipelineCalls
    /\ pipeline_ret \in {"none", "ok", "err"}

(* ====================================================================== *)
(* Buffer::new and Mesh::new (rendering/buffer.rs, rendering/mesh.rs)      *)
(* ====================================================================== *)

MaxMeshCalls == 2

\* a Vulkan handle: the number of the call that created it, the local it
\* belongs to and its type
VkHandle(nth, owner, kind) == <<nth, owner, kind>>

\* the fallible statements of Buffer::new in source order, Memory::new
\* (find_memory_type, allocate_memory) inlined
BufferNewOrder ==
    <<"create_buffer", "find_memory_type", "allocate_memory",
      "bind_buffer_memory">>

\* the handle a statement of Buffer::new creates when it succeeds
BufferCreates(statement) ==
    IF statement = "create_buffer" THEN {"vk::Buffer"}
    ELSE IF statement = "allocate_memory" THEN {"vk::DeviceMemory"}
    ELSE {}

\* the statement of Buffer::new whose ? returns the error, or none
BufferFailures ==
    {"none"} \cup {BufferNewOrder[k] : k \in DOMAIN BufferNewOrder}

\* Buffer::new from statement k on, with the handles of the kinds in made
\* created so far; an error returns at once, nothing is destroyed
RECURSIVE buffer_new_from(_, _, _)
buffer_new_from(k, made, fail_at) ==
    IF k > Len(BufferNewOrder) THEN [ok |-> TRUE, made |-> made]
    ELSE IF BufferNewOrder[k] = fail_at THEN [ok |-> FALSE, made |-> made]
    ELSE buffer_new_from(k + 1, made \cup BufferCreates(BufferNewOrder[k]),
                         fail_at)

buffer_new(nth, owner, fail_at) ==
    LET r == buffer_new_from(1, {}, fail_at)
    IN  [ok |-> r.ok,
         created |-> {VkHandle(nth, owner, kind) : kind \in r.made}]

\* Buffer::destroy: destroy_buffer, then Memory::destroy (free_memory)
buffer_destroy(nth, owner) ==
    {VkHandle(nth, owner, "vk::Buffer"),
     VkHandle(nth, owner, "vk::DeviceMemory")}

\* the statements of Mesh::new in source order
MeshNewOrder ==
    <<"staging_buffer", "map_memory", "vertex_buffer", "index_buffer",
      "allocate_command_buffers", "begin_command_buffer",
      "end_command_buffer", "queue_submit", "wait_idle",
      "free_command_buffers", "destroy_staging", "return">>

MeshStatement == IF mesh_pc = 0 THEN "none" ELSE MeshNewOrder[mesh_pc]

OneShotCommandBuffer == VkHandle(mesh_call, "command_buffer", "vk::CommandBuffer")

\* a ? of Mesh::new returns the error
MeshReturnErr ==
    /\ mesh_pc' = 0
    /\ mesh_ret' = "Err"
    /\ mesh_owned' = {}

MeshContinue ==
    /\ mesh_pc' = mesh_pc + 1
    /\ UNCHANGED <<mesh_ret, mesh_owned>>

\* a Buffer::new call of its own
BufferNew ==
    /\ mesh_pc = 0
    /\ mesh_call < MaxMeshCalls
    /\ mesh_call' = mesh_call + 1
    /\ \E fail_at \in BufferFailures :
          LET r == buffer_new(mesh_call + 1, "buffer", fail_at)
          IN  /\ vk_alive' = vk_alive \cup r.created
              /\ mesh_ret' = IF r.ok THEN "Ok" ELSE "Err"
              /\ mesh_owned' = IF r.ok THEN r.created ELSE {}
    /\ UNCHANGED mesh_pc
    /\ UNCHANGED <<ashVars, fsVars, flVars, selVars, devVars, recVars, blendVars,
                   pipeVars>>

\* Mesh::new is entered
MeshNew ==
    /\ mesh_pc = 0
    /\ mesh_call < MaxMeshCalls
    /\ mesh_call' = mesh_call + 1
    /\ mesh_pc' = 1
    /\ mesh_ret' = "pending"
    /\ mesh_owned' = {}
    /\ UNCHANGED vk_alive
    /\ UNCHANGED <<ashVars, fsVars, flVars, selVars, devVars, recVars, blendVars,
                   pipeVars>>

\* Buffer::new(..)? for the staging, the vertex or the index buffer
MeshBufferNew ==
    /\ MeshStatement \in {"staging_buffer", "vertex_buffer", "index_buffer"}
    /\ \E fail_at \in BufferFailures :
          LET r == buffer_new(mesh_call, MeshStatement, fail_at)
          IN  /\ vk_alive' = vk_alive \cup r.created
              /\ IF r.ok THEN MeshContinue ELSE MeshReturnErr
    /\ UNCHANGED mesh_call
    /\ UNCHANGED <<ashVars, fsVars, flVars, selVars, devVars, recVars, blendVars,
                   pipeVars>>

\* a fallible Vulkan call of Mesh::new that creates no handle
MeshVulkanCall ==
    /\ MeshStatement \in {"map_memory", "begin_command_buffer",
                           "end_command_buffer", "queue_submit", "wait_idle"}
    /\ \E ok \in BOOLEAN : IF ok THEN MeshContinue ELSE MeshReturnErr
    /\ UNCHANGED <<mesh_call, vk_alive>>
    /\ UNCHANGED <<ashVars, fsVars, flVars, selVars, devVars, recVars, blendVars,
                   pipeVars>>

MeshAllocateCommandBuffers ==
    /\ MeshStatement = "allocate_command_buffers"
    /\ \E ok \in BOOLEAN :
          IF ok
          THEN /\ vk_alive' = vk_alive \cup {OneShotCommandBuffer}
               /\ MeshContinue
          ELSE /\ UNCHANGED vk_alive
               /\ MeshReturnErr
    /\ UNCHANGED mesh_call
    /\ UNCHANGED <<ashVars, fsVars, flVars, selVars, devVars, recVars, blendVars,
                   pipeVars>>

MeshFreeCommandBuffers ==
    /\ MeshStatement = "free_command_buffers"
    /\ vk_alive' = vk_alive \ {OneShotCommandBuffer}
    /\ MeshContinue
    /\ UNCHANGED mesh_call
    /\ UNCHANGED <<ashVars, fsVars, flVars, selVars, devVars, recVars, blendVars,
                   pipeVars>>

\* staging_buffer.destroy(device)
MeshDestroyStaging ==
    /\ MeshStatement = "destroy_staging"
    /\ vk_alive' = vk_alive \ buffer_destroy(mesh_call, "staging_buffer")
    /\ MeshContinue
    /\ UNCHANGED mesh_call
    /\ UNCHANGED <<ashVars, fsVars, flVars, selVars, devVars, recVars, blendVars,
                   pipeVars>>

\* Ok(Self { index_count, vertex_buffer, index_buffer })
MeshNewReturn ==
    /\ MeshStatement = "return"
    /\ mesh_pc' = 0
    /\ mesh_ret' = "Ok"
    /\ mesh_owned' = buffer_destroy(mesh_call, "vertex_buffer")
                         \cup buffer_destroy(mesh_call, "index_buffer")
    /\ UNCHANGED <<mesh_call, vk_alive>>
    /\ UNCHANGED <<ashVars, fsVars, flVars, selVars, devVars, recVars, blendVars,
                   pipeVars>>

InitBuf ==
    /\ FrameNew(1)
    /\ FrameSystemNew(<<1, 1>>)
    /\ NoCall
    /\ RestIdle

NextBuf ==
    \/ BufferNew
    \/ MeshNew
    \/ MeshBufferNew
    \/ MeshVulkanCall
    \/ MeshAllocateCommandBuffers
    \/ MeshFreeCommandBuffers
    \/ MeshDestroyStaging
    \/ MeshNewReturn

SpecBuf == InitBuf /\ [][NextBuf]_vars

TypeOKBuf ==
    /\ mesh_pc \in 0 .. Len(MeshNewOrder)
    /\ mesh_call \in 0 .. MaxMeshCalls
    /\ mesh_ret \in {"none", "pending", "Ok", "Err"}
    /\ mesh_owned \subseteq vk_alive

(* ====================================================================== *)
(* Properties of the FrameSystem, checked under SpecFS                     *)
(* ====================================================================== *)

PendingOn(s) == {k \in 1 .. Len(gpu_queue) : gpu_queue[k].slot = s}

C2_WaitResetSubmit ==
    \A k \in 1 .. Len(ops) :
        ops[k].op = "submit" =>
            \E i \in 1 .. k : \E j \in 1 .. k :
                /\ i < j
                /\ j < k
                /\ ops[i] = [op |-> "wait", slot |-> ops[k].slot]
                /\ ops[j] = [op |-> "reset", slot |-> ops[k].slot]

C2_Witness ==
    /\ "submit" \in OpNames
    /\ max_frames_in_flight = 2
    /\ current_frame = 1

(* C3 (as stated): exactly one fence wait and exactly one fence reset on   *)
(* slot s occur between two consecutive submissions into s, also when      *)
(* draw calls returned early in between.                                   *)
C3_ExactlyOneWaitOneReset ==
    last_submit # NoSubmit =>
        /\ last_submit.waits = 1
        /\ last_submit.resets = 1

(* C3 (amended): between two consecutive submissions into slot s (and      *)
(* before the first) exactly one fence reset on s occurs, and one fence    *)
(* wait on s for the submitting call plus one for every draw call that     *)
(* returned early after its wait: at least one wait, exactly one only      *)
(* when no call returned early.                                            *)
C3_OneResetWaitPerCall ==
    last_submit # NoSubmit =>
        /\ last_submit.resets = 1
        /\ last_submit.waits >= 1
        /\ last_submit.waits = Min(last_submit.early + 1, CountCap)

C3_Witness ==
    /\ last_submit # NoSubmit
    /\ last_submit.waits = 2
    /\ last_submit.early = 1
    /\ last_submit.resets = 1

(* C4: at most N submissions are unfinished at any moment and at most one  *)
(* unfinished submission exists per frame slot.                            *)
C4_BoundedInFlight ==
    /\ Len(gpu_queue) <= max_frames_in_flight
    /\ \A s \in Slots : Cardinality(PendingOn(s)) <= 1

C4_Witness ==
    /\ max_frames_in_flight = 2
    /\ Len(gpu_queue) = 2
    /\ At("wait")

(* C5: while update_world_data(current_frame) writes the uniform buffer    *)
(* of the current slot, no submitted and unfinished command buffer binds   *)
(* that buffer.                                                            *)
C5_NoWriteWhileBound ==
    pc = "update" =>
        \A k \in 1 .. Len(gpu_queue) : gpu_queue[k].buffer # current_frame

(* C6: when acquire reports out-of-date, Frame::draw returns Ok(true)      *)
(* without having reset the fence, submitted or presented; the fence of    *)
(* the slot stays signalled, so the wait of the next draw call, made       *)
(* after the recreation, does not block.                                   *)
C6_OutOfDateAcquire ==
    /\ (pc = "returned" /\ exit_at = "acquire_out_of_date") =>
          /\ result = "ok_true"
          /\ OpNames \cap {"reset", "submit", "present"} = {}
          /\ inflight_fences[current_frame]
          /\ PendingOn(current_frame) = {}
    /\ (At("wait") /\ exit_at = "acquire_out_of_date") =>
          inflight_fences[current_frame]

C6_Witness ==
    /\ exit_at = "acquire_out_of_date"
    /\ At("advance")
    /\ was_resized = "ok_false"
    /\ ~swapchain_stale

(* C8 (as stated): when acquire succeeds but reports suboptimal,           *)
(* Frame::draw returns Ok(true), also when present reports plain success.  *)
C8_SuboptimalAcquireSignalsResize ==
    (pc = "returned" /\ exit_at = "end" /\ acquire_suboptimal) =>
        result = "ok_true"

(* C8 (amended): Frame::draw ignores the suboptimal flag of a successful   *)
(* acquire; a call that presented returns Ok(true) exactly when present    *)
(* reported out-of-date or suboptimal and Ok(false) when present reported  *)
(* plain success, whatever acquire reported.                               *)
C8_ResultFollowsPresentOnly ==
    (pc = "returned" /\ exit_at = "end") =>
        /\ result = "ok_true" <=>
              present_vk \in {"SUBOPTIMAL_KHR", "ERROR_OUT_OF_DATE_KHR"}
        /\ result = "ok_false" <=> present_vk = "SUCCESS"

C8_Witness ==
    /\ pc = "returned"
    /\ exit_at = "end"
    /\ acquire_suboptimal
    /\ present_vk = "SUCCESS"
    /\ result = "ok_false"

(* C9: present_image returns Ok(true) when queue_present reports           *)
(* out-of-date or suboptimal, Ok(false) for plain success and an error     *)
(* for every other result, never for out-of-date or suboptimal.            *)
C9_PresentImageResult ==
    /\ was_resized = "ok_true" <=>
          present_vk \in {"SUBOPTIMAL_KHR", "ERROR_OUT_OF_DATE_KHR"}
    /\ was_resized = "ok_false" <=> present_vk = "SUCCESS"
    /\ was_resized = "err" <=>
          present_vk \notin {"SUCCESS", "SUBOPTIMAL_KHR", "ERROR_OUT_OF_DATE_KHR"}

C9_Witness ==
    /\ present_vk = "ERROR_OUT_OF_DATE_KHR"
    /\ was_resized = "ok_true"
    /\ pc = "returned"
    /\ result = "ok_true"

(* C10: after Frame::draw returned an error from reset_fences,             *)
(* queue_submit or present_image, the wait_for_fence of the next draw      *)
(* call does not block forever: the fence of the current slot is           *)
(* signalled or an accepted, unfinished submission will signal it.         *)
C10_WaitAfterErrorReturns ==
    (At("wait") /\ exit_at \in {"reset", "submit", "present"}) =>
        \/ inflight_fences[current_frame]
        \/ PendingOn(current_frame) # {}

(* C11: in a Frame::draw call that submits for slot s, the submission      *)
(* waits on the image-available semaphore of s that was handed to          *)
(* acquire_next_image, executes the command buffer of the image index      *)
(* acquire returned, and signals the render-finished semaphore and the     *)
(* fence of s; the present of that image waits on that render-finished     *)
(* semaphore and is issued only after the submission call.                 *)
C11_SubmitPresentHandles ==
    /\ \A k \in 1 .. Len(sync) :
          sync[k].op = "submit" =>
              /\ sync[k].wait = image_available_semaphore(call_frame)
              /\ sync[k].signal = render_finished_semaphore(call_frame)
              /\ sync[k].fence = inflight_fence(call_frame)
              /\ \E a \in 1 .. (k - 1) :
                    /\ sync[a].op = "acquire"
                    /\ sync[a].signal = sync[k].wait
                    /\ sync[a].image = sync[k].image
    /\ \A p \in 1 .. Len(sync) :
          sync[p].op = "present" =>
              \E k \in 1 .. (p - 1) :
                  /\ sync[k].op = "submit"
                  /\ sync[p].wait = sync[k].signal
                  /\ sync[p].image = sync[k].image
    /\ \A k \in 1 .. Len(gpu_queue) :
          /\ gpu_queue[k].image \in DOMAIN command_buffers
          /\ gpu_queue[k].buffer = descriptor_set(gpu_queue[k].image)

C11_Witness ==
    /\ pc = "returned"
    /\ exit_at = "end"
    /\ call_frame = 1
    /\ Len(sync) = 3
    /\ sync[2].op = "submit"
    /\ sync[2].image = 0
    /\ sync[3].op = "present"

(* ====================================================================== *)
(* Further properties of the FrameSystem, checked under SpecFS             *)
(* ====================================================================== *)

\* what the k-th next_pass call of a Frame is to return
PassOrder == <<"Draw", "Lighting", "Compose", "None">>

(* C12: for every Frame handed out by FrameSystem::frame the successive    *)
(* next_pass calls yield Draw, Lighting, Compose and then None, none       *)
(* skipped or repeated; the render pass is begun exactly once, by the      *)
(* first call, and the command buffer is submitted and presented exactly   *)
(* once, by the fourth call.                                               *)
C12_PassOrder ==
    /\ panicked \notin {"overflow", "next_pass_unwrap"}
    /\ frame_alive =>
          /\ last_pass = IF pass_index = 0 THEN "none"
                         ELSE PassOrder[Min(pass_index, Len(PassOrder))]
          /\ begins = IF pass_index >= 1 THEN 1 ELSE 0
          /\ submits = IF pass_index >= Len(PassOrder) THEN 1 ELSE 0

(* C13: whenever FrameSystem::frame handed out a Frame, after any number   *)
(* of swapchain recreations, the framebuffers and the input-attachment     *)
(* descriptor sets of the directional lighting system and of the           *)
(* composing system reference the current attachments, never ones an       *)
(* earlier recreation replaced.                                            *)
C13_InputsReferenceCurrentAttachments ==
    frame_alive =>
        /\ framebuffers = attachments
        /\ directional_input = attachments
        /\ composing_input = attachments

C13_Witness ==
    /\ frame_alive
    /\ frame_ret = "Some"
    /\ "create_attachments" \in Range(frame_ops)
    /\ attachments = 2
    /\ directional_input = 2
    /\ composing_input = 2
    /\ pass_index = 2

\* the calls of a FrameSystem::frame call that recreated and then acquired
RecreatedThenAcquired ==
    <<"recreate", "create_attachments", "create_framebuffers", "acquire">>

(* C14: once resize-needed is flagged, it stays flagged until a            *)
(* FrameSystem::frame call; that call attempts the recreation first, and   *)
(* acquires an image only after swapchain, attachments and framebuffers    *)
(* were recreated; the flag is cleared only by a call whose recreation     *)
(* succeeded; when the recreation reports unsupported dimensions the call  *)
(* returns None without acquiring and the flag stays set.                  *)
C14_RecreateBeforeAcquire ==
    [][/\ (should_recreate_swapchain /\ ~should_recreate_swapchain') =>
              /\ FrameSystemFrame
              /\ "create_framebuffers" \in Range(frame_ops')
       /\ (FrameSystemFrame /\ should_recreate_swapchain
              /\ frame_ret' \in {"Some", "None"}) =>
              /\ frame_ops' # <<>>
              /\ frame_ops'[1] = "recreate"
              /\ "acquire" \in Range(frame_ops') =>
                    /\ frame_ops' = RecreatedThenAcquired
                    /\ swapchain_dimensions' = window_size
                    /\ attachments' = attachments + 1
                    /\ framebuffers' = attachments'
              /\ "acquire" \notin Range(frame_ops') =>
                    /\ frame_ret' = "None"
                    /\ ~frame_alive'
                    /\ should_recreate_swapchain'
                    /\ UNCHANGED <<swapchain_dimensions, attachments,
                                   framebuffers>>
      ]_vars

C14_Witness ==
    /\ frame_call_flag
    /\ frame_ret = "Some"
    /\ frame_ops = RecreatedThenAcquired
    /\ ~should_recreate_swapchain
    /\ swapchain_dimensions = <<2, 1>>
    /\ attachments = 2

(* ====================================================================== *)
(* Properties of FrameLogic and Swapchain, checked under SpecFL            *)
(* ====================================================================== *)

FrameLogicKinds ==
    {"framebuffer", "depth_image", "depth_image_view", "command_buffer"}

(* C15: over every sequence of FrameLogic::new, recreate_frame_buffers,    *)
(* recreate_command_buffers and destroy calls, also when a create call     *)
(* inside a recreate call fails, every framebuffer, depth image, depth     *)
(* image view and command buffer created is destroyed or freed exactly     *)
(* once: never twice, and none is left after destroy.                      *)
C15_DestroyedExactlyOnce ==
    \A id \in DOMAIN handles :
        handles[id].kind \in FrameLogicKinds =>
            /\ handles[id].destroyed <= 1
            /\ logic = "destroyed" => handles[id].destroyed = 1

\* the handle at position k of the log was destroyed after every handle
\* that references it
DestroyedAfterDependents(k) ==
    \A id \in DOMAIN handles :
        destroyed_log[k] \in handles[id].deps =>
            \E j \in 1 .. (k - 1) : destroyed_log[j] = id

(* C16: every destroy routine destroys an object before every object it    *)
(* depends on: the swapchain image views before the swapchain, the         *)
(* pipeline before its layout and shader modules, and each framebuffer     *)
(* before the depth image and depth image view it references.              *)
C16_DestroyRespectsDependencies ==
    \A k \in 1 .. Len(destroyed_log) : DestroyedAfterDependents(k)

(* ====================================================================== *)
(* Properties of the selection functions, checked under SpecSel            *)
(* ====================================================================== *)

(* C17: for every window size and capabilities with min <= max,            *)
(* choose_swapchain_extent returns an extent whose width and height lie    *)
(* between the capability minimum and maximum, except that with a fixed    *)
(* current extent (no sentinel) it returns exactly that extent, whatever   *)
(* the window size.                                                        *)
C17_ExtentWithinCapabilities ==
    (call = "choose_swapchain_extent" /\ returned) =>
        IF args.capabilities.current_extent.width # u32_max_value
        THEN ret = args.capabilities.current_extent
        ELSE /\ ret.width >= args.capabilities.min_image_extent.width
             /\ ret.width <= args.capabilities.max_image_extent.width
             /\ ret.height >= args.capabilities.min_image_extent.height
             /\ ret.height <= args.capabilities.max_image_extent.height

C17_Witness ==
    /\ call = "choose_swapchain_extent"
    /\ returned
    /\ args.capabilities.current_extent.width = u32_max_value
    /\ args.size[1] > args.capabilities.max_image_extent.width
    /\ ret.width = args.capabilities.max_image_extent.width
    /\ args.size[2] < args.capabilities.min_image_extent.height
    /\ ret.height = args.capabilities.min_image_extent.height

PreferredFormat ==
    [format |-> "B8G8R8A8_SRGB", color_space |-> "SRGB_NONLINEAR"]

(* C18: for every non-empty list of surface formats,                       *)
(* choose_swapchain_format returns the (B8G8R8A8_SRGB, SRGB_NONLINEAR)     *)
(* pair when the list holds it at any position, and the first element of   *)
(* the list otherwise.                                                     *)
C18_PreferredFormatOrFirst ==
    (call = "choose_swapchain_format" /\ returned) =>
        IF PreferredFormat \in Range(args.available_formats)
        THEN ret = PreferredFormat
        ELSE ret = args.available_formats[1]

C18_Witness ==
    /\ call = "choose_swapchain_format"
    /\ returned
    /\ Len(args.available_formats) = 3
    /\ args.available_formats[1].format = "B8G8R8A8_UNORM"
    /\ args.available_formats[2].color_space = "EXTENDED_SRGB_LINEAR"
    /\ args.available_formats[3] = PreferredFormat
    /\ ret = PreferredFormat

(* C19: for all reported min_image_count and max_image_count (max = 0 or   *)
(* max >= min) the image count Swapchain::new asks for is min + 1 when     *)
(* max is 0 and the smaller of min + 1 and max otherwise; it is never      *)
(* below min and never above a nonzero max.                                *)
C19_ImageCountClamped ==
    (call = "image_count" /\ returned) =>
        /\ args.max_image_count = 0 => ret = args.min_image_count + 1
        /\ args.max_image_count # 0 =>
              /\ ret <= args.min_image_count + 1
              /\ ret <= args.max_image_count
              /\ ret \in {args.min_image_count + 1, args.max_image_count}
        /\ ret >= args.min_image_count

C19_Witness ==
    /\ call = "image_count"
    /\ returned
    /\ args.min_image_count = 3
    /\ args.max_image_count = 3
    /\ ret = 3

\* bit i of the bitmask is set
BitSet(mask, i) == (mask \div (2^i)) % 2 = 1

\* the memory-type indices that qualify
Qualifying ==
    {i \in 0 .. (Len(args.memory_types) - 1) :
        /\ BitSet(args.type_filter, i)
        /\ args.required_properties \subseteq args.memory_types[i + 1]}

(* C20: for every type bitmask and required property flags,                *)
(* find_memory_type returns the lowest memory-type index whose bit is set  *)
(* in the bitmask and whose property flags hold all the required flags,    *)
(* and the no-suitable-memory-type error exactly when there is none.       *)
C20_LowestQualifyingMemoryType ==
    (call = "find_memory_type" /\ returned) =>
        /\ ret.ok <=> Qualifying # {}
        /\ ret.ok =>
              /\ ret.index \in Qualifying
              /\ \A j \in Qualifying : ret.index <= j

C20_Witness ==
    /\ call = "find_memory_type"
    /\ returned
    /\ Qualifying = {1, 2}
    /\ BitSet(args.type_filter, 0)
    /\ args.required_properties = {"HOST_VISIBLE"}
    /\ ret = [ok |-> TRUE, index |-> 1]

(* ====================================================================== *)
(* Properties of the device selection, checked under SpecDev               *)
(* ====================================================================== *)

\* the devices, among the ones the loop has examined, that satisfy the
\* constraints and whose queries all succeeded
SuitableDevices ==
    {i \in DOMAIN checked : checked[i].suitable /\ checked[i].indices.ok}

(* C21: pick_physical_device returns the first device in enumeration       *)
(* order that satisfies all constraints whenever at least one device       *)
(* satisfies them, and fails only when no device satisfies them; devices   *)
(* later in the list than the first qualifying one do not affect the       *)
(* result.                                                                 *)
C21_FirstSuitableDevice ==
    (pick_pc = "returned" /\ pick_ret.error # "enumerate") =>
        /\ pick_ret.ok <=> SuitableDevices # {}
        /\ pick_ret.ok =>
              /\ pick_ret.device \in SuitableDevices
              /\ \A j \in SuitableDevices : pick_ret.device <= j

(* ====================================================================== *)
(* Properties of what FrameLogic builds and records, checked under SpecRec *)
(* ====================================================================== *)

\* the extents a list of framebuffers or command buffers was built for
ExtentsOf(list) == [i \in DOMAIN list |-> list[i].extent]

(* C22: with an unchanged swapchain, calling Frame::recreate_logic twice   *)
(* in a row with no draw in between leaves the same number of             *)
(* framebuffers and command buffers, built for the same extent, as         *)
(* calling it once (both calls returning Ok).                              *)
C22_RecreateTwiceAsOnce ==
    (rec_last.call = "recreate_logic" /\ rec_last.ok /\ rec_before.taken) =>
        /\ Len(rec_framebuffers) = Len(rec_before.framebuffers)
        /\ Len(rec_command_buffers) = Len(rec_before.command_buffers)
        /\ ExtentsOf(rec_framebuffers) = ExtentsOf(rec_before.framebuffers)
        /\ ExtentsOf(rec_command_buffers)
              = ExtentsOf(rec_before.command_buffers)

C22_Witness ==
    /\ rec_last.call = "recreate_logic"
    /\ rec_last.ok
    /\ rec_before.taken
    /\ Len(rec_framebuffers) = 2
    /\ Len(rec_command_buffers) = 2
    /\ rec_swapchain.extent = <<2, 1>>
    /\ meshes # <<>>

\* the meshes a command buffer draws, in the order recorded
DrawnMeshes(recorded_buffer) ==
    [m \in DOMAIN recorded_buffer.draws |-> recorded_buffer.draws[m].mesh]

(* C24: for every sequence of update_meshes, recreate_command_buffers and  *)
(* Frame::draw calls, the command buffer submitted by a draw draws exactly *)
(* the mesh list most recently passed to update_meshes.                    *)
C24_SubmittedDrawsCurrentMeshes ==
    (rec_last.call = "draw" /\ rec_last.ok) =>
        DrawnMeshes(rec_command_buffers[rec_last.image_index + 1]) = meshes

(* C27: after every Frame::recreate_logic call that did not return an      *)
(* error, also with a swapchain whose image count differs from the count   *)
(* at construction, the number of command buffers equals the number of     *)
(* framebuffers equals the swapchain image count, and every descriptor-set *)
(* index used while recording is smaller than the number of descriptor     *)
(* sets allocated at construction (no index is out of bounds).             *)
C27_CountsAndDescriptorIndices ==
    (rec_last.call = "recreate_logic" /\ (rec_last.ok \/ rec_panicked)) =>
        /\ ~rec_panicked
        /\ Len(rec_command_buffers) = rec_swapchain.image_count
        /\ Len(rec_framebuffers) = rec_swapchain.image_count
        /\ \A i \in DOMAIN rec_command_buffers :
           \A m \in DOMAIN rec_command_buffers[i].draws :
              rec_command_buffers[i].draws[m].descriptor_set < descriptor_sets

(* ====================================================================== *)
(* Properties of the lighting subpass, checked under SpecBlend             *)
(* ====================================================================== *)

(* C23: every light draw is added into the light-accumulation output       *)
(* (Add, One, One): with zero light draws the output keeps its clear       *)
(* value, and after the draws the accumulated colour is per channel the    *)
(* sum of the colours drawn (C1 + C2 for two directional lights at full    *)
(* intensity), clamped to the largest value the format represents.         *)
C23_AdditiveLightAccumulation ==
    /\ light_draws = 0 => light = ClearValue
    /\ \A c \in 1 .. 3 :
          light[c] = IF light_sum[c] > ChannelMax THEN ChannelMax
                     ELSE light_sum[c]

C23_Witness ==
    /\ light_draws = 2
    /\ full_directional = 2
    /\ light_sum = <<ChannelMax + 1, 2, 0>>
    /\ light = <<ChannelMax, 2, 0, ChannelMax>>

(* ====================================================================== *)
(* Properties of SimpleFrameLogic::recreate_pipeline, checked under        *)
(* SpecPipe                                                                *)
(* ====================================================================== *)

(* C25: recreate_pipeline replaces the pipeline as a whole: the old        *)
(* pipeline is destroyed only after the new pipeline was created           *)
(* successfully, and when creation fails the call returns an error with    *)
(* the stored pipeline handle unchanged and still valid (not destroyed).   *)
C25_PipelineReplacedAsAWhole ==
    /\ \A k \in DOMAIN pipeline_log :
          pipeline_log[k].op = "destroy" =>
              /\ k > 1
              /\ pipeline_log[k - 1].op = "create"
              /\ pipeline_log[k - 1].pipeline # pipeline_log[k].pipeline
    /\ pipeline_ret = "err" =>
          /\ graphics_pipeline = pipeline_before
          /\ pipeline_log[Len(pipeline_log)].op = "failed"
    /\ graphics_pipeline # NullPipeline =>
          graphics_pipeline \in pipelines_alive

C25_Witness ==
    /\ pipeline_ret = "err"
    /\ graphics_pipeline = 2
    /\ pipelines_alive = {2}
    /\ \E k \in DOMAIN pipeline_log :
          pipeline_log[k] = [op |-> "destroy", pipeline |-> 1]

(* ====================================================================== *)
(* The end of a frame, checked under SpecFS                                *)
(* ====================================================================== *)

(* C26: when the flush in the fourth next_pass call fails, next_pass still *)
(* returns normally (with None): an out-of-date failure sets the           *)
(* recreate-swapchain flag, any other failure leaves the flag as it was,   *)
(* and after a failure as well as after a success FrameSystem.frame_future *)
(* holds a future again.                                                   *)
C26_FlushFailure ==
    [][flush_result' # "none" =>
          /\ panicked' = "no"
          /\ last_pass' = "None"
          /\ frame_future' = "some"
          /\ should_recreate_swapchain' =
                 (should_recreate_swapchain \/ flush_result' = "OutOfDate")]_vars

C26_Witness ==
    /\ flush_result = "Error"
    /\ ~should_recreate_swapchain
    /\ frame_future = "some"
    /\ last_pass = "None"
    /\ panicked = "no"

(* C28: once next_pass has submitted the frame and returned None, every    *)
(* further next_pass call on the same Frame returns None as well and       *)
(* causes no second render pass begin, subpass advance or submission,      *)
(* however many calls follow (256 or more included).                       *)
C28_NoneIsFinal ==
    (frame_alive /\ submits >= 1) =>
        /\ panicked = "no"
        /\ last_pass = "None"
        /\ primary_buffer = "none"
        /\ begins = 1
        /\ submits = 1

(* C29: FrameSystem.frame_future holds a future at the entry of every      *)
(* FrameSystem::frame call, also of a call that follows a Frame dropped    *)
(* before its fourth next_pass call, so that the unwrap at the start of    *)
(* frame never fails.                                                      *)
C29_FrameFutureAtEntry ==
    /\ panicked # "frame_unwrap"
    /\ (~frame_alive /\ panicked = "no") => frame_future = "some"

(* ====================================================================== *)
(* Error returns of Buffer::new and Mesh::new, checked under SpecBuf       *)
(* ====================================================================== *)

\* the handles the last Buffer::new or Mesh::new call created that are alive
AliveOfLastCall == {h \in vk_alive : h[1] = mesh_call}

(* C30: when Buffer::new or Mesh::new returns an error, every buffer,      *)
(* device memory and one-shot command buffer the call created before the   *)
(* failing statement has been destroyed or freed: the call leaves no       *)
(* handle of its own alive.                                                *)
C30_NoHandleLeftOnError ==
    mesh_ret = "Err" => AliveOfLastCall = {}

====
